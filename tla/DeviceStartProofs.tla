-------------------------- MODULE DeviceStartProofs ---------------------------
(***************************************************************************)
(* The firmware update and the start of the device, for images of any      *)
(* number of pieces and any number of power losses: an update is safe, the *)
(* start adds nothing to what it may do, and the TLS identity is whole and *)
(* kept.                                                                   *)
(***************************************************************************)
EXTENDS DeviceStart, FiniteSetTheorems, TLAPS

WebUpdates == {"begin", "buffer", "receive", "switch", "spawn"}
GitUpdates == {"connect", "describe", "perform", "abort", "failed", "ready"}

(* Who owns the update. The flag active is up exactly while one task works *)
(* on an update, restart_pending exactly while one of them is to restart   *)
(* the device, and the open handle is the owner's.                         *)
Owner ==
  /\ active <=> web \in WebUpdates \/ git \in GitUpdates
  /\ restart_pending <=> web = "schedule" \/ restart \/ git = "restart"
  /\ ~(active /\ restart_pending)
  /\ web \in WebUpdates => git = "none"
  /\ web = "schedule" => git = "none" /\ ~restart
  /\ "web" \in handles <=> web \in {"buffer", "receive"}
  /\ "git" \in handles <=> git \in {"describe", "perform", "abort"}
  /\ power = "off" => ~active /\ ~restart_pending

Good(s) == state[s] = "valid" /\ content[s] = "works"

(* The running image is confirmed, and boots next unless another waits for *)
(* its try or has had it; or it is on trial and the other is confirmed.    *)
Confirmed == Good(running) /\ (boot = running \/ state[boot] \in {"new", "pending"})
Trial == state[running] = "pending" /\ boot = running /\ Good(Other(running))
Runs == power # "off" => Confirmed \/ Trial

(* What boots next is on its first try or past it, or confirmed.           *)
Boots == state[boot] \in {"new", "pending"} \/ Good(boot)

(* Only a confirmed image writes the other slot.                           *)
Writes ==
  ( \/ web \in {"buffer", "receive", "switch", "schedule"}
    \/ git \in {"perform", "ready", "restart"}
    \/ restart ) => Good(running)

(* What is about to be selected is complete, what is selected is new.      *)
Selects ==
  /\ web = "switch" => content[Other(running)] \in Complete
  /\ restart_pending \/ git = "ready" =>
       boot = Other(running) /\ state[boot] = "new" /\ content[boot] \in Complete

OtaInv == OtaTypeOK /\ Owner /\ Fallback /\ Runs /\ Boots /\ Writes /\ Selects

----------------------------------------------------------------------------
(* There are two slots.                                                    *)
LEMMA OtherSlot == \A s \in Slots : Other(s) \in Slots /\ Other(s) # s /\ Other(Other(s)) = s
BY DEF Slots, Other

(* A new device: one confirmed image, no update.                           *)
LEMMA InitInv == Init => OtaInv
<1> SUFFICES ASSUME Init PROVE OtaInv
  OBVIOUS
<1>1. OtaTypeOK
  <2>1. active \in BOOLEAN /\ restart_pending \in BOOLEAN /\ restart \in BOOLEAN
    BY Zenon DEF Init
  <2>2. QED
    BY <2>1, OtaAssumption DEF Init, OtaTypeOK, Slots, Images, Complete
<1>2. Owner
  <2>1. ~active /\ ~restart_pending /\ ~restart
    BY Zenon DEF Init
  <2>2. QED
    BY <2>1 DEF Init, Owner, WebUpdates, GitUpdates
<1>3. Fallback /\ Runs /\ Boots /\ Writes /\ Selects
  <2>1. ~restart_pending /\ ~restart
    BY Zenon DEF Init
  <2>2. QED
    BY <2>1 DEF Init, Fallback, Good, Runs, Boots, Writes, Selects, Slots
<1>4. QED
  BY <1>1, <1>2, <1>3 DEF OtaInv

(* Every step of the tasks, the bootloader and app_main keeps the types.   *)
LEMMA TypeStep == OtaTypeOK /\ Next => OtaTypeOK'
<1> SUFFICES ASSUME OtaTypeOK, Next PROVE OtaTypeOK'
  OBVIOUS
<1> USE OtaAssumption DEF OtaTypeOK, Slots, Images, Complete, Other, flash, status, transfer
<1>1. CASE BeginUpload
  BY <1>1 DEF BeginUpload, Reserve, Free
<1>2. CASE StartGithub
  BY <1>2 DEF StartGithub, Reserve, Free
<1>3. CASE ReceivePiece
  BY <1>3 DEF ReceivePiece
<1>4. CASE ReceiveFails
  BY <1>4 DEF ReceiveFails, AbortUpload, set_failure
<1>5. CASE PrepareSlot
  BY <1>5 DEF PrepareSlot, CanBegin, Erased, Target
<1>6. CASE PrepareFails
  BY <1>6 DEF PrepareFails, CanBegin, Erased, Target, set_failure
<1>7. CASE AllocateBuffer
  BY <1>7 DEF AllocateBuffer
<1>8. CASE AllocateFails
  BY <1>8 DEF AllocateFails, AbortUpload, set_failure
<1>9. CASE EndUpload
  BY <1>9 DEF EndUpload, Target
<1>10. CASE EndUploadFails
  BY <1>10 DEF EndUploadFails, AbortUpload, set_failure
<1>11. CASE SwitchBoot
  <2>1. active' \in BOOLEAN /\ restart_pending' \in BOOLEAN /\ restart' \in BOOLEAN
    BY <1>11, Zenon DEF SwitchBoot, set_ready
  <2>2. QED
    BY <1>11, <2>1, OtherSlot DEF SwitchBoot, Selected, Target
<1>12. CASE SwitchFails
  BY <1>12 DEF SwitchFails, set_failure
<1>13. CASE ScheduleRestart
  BY <1>13 DEF ScheduleRestart
<1>14. CASE ScheduleFails
  BY <1>14 DEF ScheduleFails, set_failure
<1>15. CASE SpawnGithub
  BY <1>15 DEF SpawnGithub
<1>16. CASE SpawnGithubFails
  BY <1>16 DEF SpawnGithubFails, set_failure
<1>17. CASE Connects
  BY <1>17 DEF Connects
<1>18. CASE ConnectFails
  BY <1>18 DEF ConnectFails
<1>19. CASE Describes
  BY <1>19 DEF Describes, CanBegin, Erased, Target
<1>20. CASE Performs
  BY <1>20 DEF Performs
<1>21. CASE DownloadFails
  BY <1>21 DEF DownloadFails
<1>22. CASE AbortDownload
  BY <1>22 DEF AbortDownload
<1>23. CASE ReportFailure
  BY <1>23 DEF ReportFailure, set_failure
<1>24. CASE FinishDownload
  BY <1>24 DEF FinishDownload, Selected, Target
<1>25. CASE DownloadReady
  BY <1>25 DEF DownloadReady, set_ready
<1>26. CASE esp_restart
  <2>1. active' \in BOOLEAN /\ restart_pending' \in BOOLEAN /\ restart' \in BOOLEAN
    BY <1>26, Zenon DEF esp_restart, Off
  <2>2. QED
    BY <1>26, <2>1 DEF esp_restart, Off
<1>27. CASE PowerLoss
  <2>1. active' \in BOOLEAN /\ restart_pending' \in BOOLEAN /\ restart' \in BOOLEAN
    BY <1>27, Zenon DEF PowerLoss, Off
  <2>2. QED
    BY <1>27, <2>1 DEF PowerLoss, Off
<1>28. CASE Bootloader
  BY <1>28 DEF Bootloader
<1>29. CASE StartFails
  <2>1. active' \in BOOLEAN /\ restart_pending' \in BOOLEAN /\ restart' \in BOOLEAN
    BY <1>29, Zenon DEF StartFails, Off
  <2>2. QED
    BY <1>29, <2>1 DEF StartFails, Off
<1>30. CASE WebServerStarts
  BY <1>30 DEF WebServerStarts
<1>31. CASE StartCompletes
  BY <1>31 DEF StartCompletes
<1>32. CASE Conflict
  BY <1>32 DEF Conflict, vars
<1> QED
    BY <1>1, <1>2, <1>3, <1>4, <1>5, <1>6, <1>7, <1>8, <1>9, <1>10, <1>11, <1>12, <1>13,
     <1>14, <1>15, <1>16, <1>17, <1>18, <1>19, <1>20, <1>21, <1>22, <1>23, <1>24, <1>25,
     <1>26, <1>27, <1>28, <1>29, <1>30, <1>31, <1>32 DEF Next, WebStep, GithubStep, Start

(* Every step hands the update on or ends it: handles are closed before a  *)
(* failure is reported, and a failed schedule is the only restart there is.*)
LEMMA OwnerStep == OtaInv /\ Next => Owner'
<1> SUFFICES ASSUME OtaInv, Next PROVE Owner'
  OBVIOUS
<1> USE DEF OtaInv, OtaTypeOK, Owner, Slots, Complete, Other, flash, status, transfer,
     Owner, WebUpdates, GitUpdates
<1>1. CASE BeginUpload
  BY <1>1 DEF BeginUpload, Reserve, Free
<1>2. CASE StartGithub
  BY <1>2 DEF StartGithub, Reserve, Free
<1>3. CASE ReceivePiece
  BY <1>3 DEF ReceivePiece
<1>4. CASE ReceiveFails
  BY <1>4 DEF ReceiveFails, AbortUpload, set_failure
<1>5. CASE PrepareSlot
  BY <1>5 DEF PrepareSlot, CanBegin, Erased, Target
<1>6. CASE PrepareFails
  BY <1>6 DEF PrepareFails, CanBegin, Erased, Target, set_failure
<1>7. CASE AllocateBuffer
  BY <1>7 DEF AllocateBuffer
<1>8. CASE AllocateFails
  BY <1>8 DEF AllocateFails, AbortUpload, set_failure
<1>9. CASE EndUpload
  BY <1>9 DEF EndUpload, Target
<1>10. CASE EndUploadFails
  BY <1>10 DEF EndUploadFails, AbortUpload, set_failure
<1>11. CASE SwitchBoot
  BY <1>11 DEF SwitchBoot, Selected, Target, set_ready
<1>12. CASE SwitchFails
  BY <1>12 DEF SwitchFails, set_failure
<1>13. CASE ScheduleRestart
  BY <1>13 DEF ScheduleRestart
<1>14. CASE ScheduleFails
  <2>1. ~active' /\ ~restart_pending'
    BY <1>14, Zenon DEF ScheduleFails, set_failure
  <2>2. ~active /\ restart_pending
    BY <1>14 DEF ScheduleFails
  <2>3. QED
    BY <1>14, <2>1, <2>2 DEF ScheduleFails
<1>15. CASE SpawnGithub
  BY <1>15 DEF SpawnGithub
<1>16. CASE SpawnGithubFails
  BY <1>16 DEF SpawnGithubFails, set_failure
<1>17. CASE Connects
  BY <1>17 DEF Connects
<1>18. CASE ConnectFails
  BY <1>18 DEF ConnectFails
<1>19. CASE Describes
  BY <1>19 DEF Describes, CanBegin, Erased, Target
<1>20. CASE Performs
  BY <1>20 DEF Performs
<1>21. CASE DownloadFails
  BY <1>21 DEF DownloadFails
<1>22. CASE AbortDownload
  BY <1>22 DEF AbortDownload
<1>23. CASE ReportFailure
  BY <1>23 DEF ReportFailure, set_failure
<1>24. CASE FinishDownload
  BY <1>24 DEF FinishDownload, Selected, Target
<1>25. CASE DownloadReady
  BY <1>25 DEF DownloadReady, set_ready
<1>26. CASE esp_restart
  BY <1>26 DEF esp_restart, Off
<1>27. CASE PowerLoss
  BY <1>27 DEF PowerLoss, Off
<1>28. CASE Bootloader
  BY <1>28 DEF Bootloader
<1>29. CASE StartFails
  BY <1>29 DEF StartFails, Off
<1>30. CASE WebServerStarts
  BY <1>30 DEF WebServerStarts
<1>31. CASE StartCompletes
  BY <1>31 DEF StartCompletes
<1>32. CASE Conflict
  BY <1>32 DEF Conflict, vars
<1> QED
    BY <1>1, <1>2, <1>3, <1>4, <1>5, <1>6, <1>7, <1>8, <1>9, <1>10, <1>11, <1>12, <1>13,
     <1>14, <1>15, <1>16, <1>17, <1>18, <1>19, <1>20, <1>21, <1>22, <1>23, <1>24, <1>25,
     <1>26, <1>27, <1>28, <1>29, <1>30, <1>31, <1>32 DEF Next, WebStep, GithubStep, Start

(* Every step keeps the slot to fall back to: writers touch the slot that  *)
(* does not run, and only while the running image is confirmed.            *)
LEMMA FlashStep == OtaInv /\ Next => (Fallback /\ Runs /\ Boots /\ Writes /\ Selects)'
<1> SUFFICES ASSUME OtaInv, Next PROVE (Fallback /\ Runs /\ Boots /\ Writes /\ Selects)'
  OBVIOUS
<1> USE DEF OtaInv, OtaTypeOK, Owner, Slots, Complete, Other, flash, status, transfer,
     Fallback, Runs, Boots, Writes, Selects, Good, Confirmed, Trial, WebUpdates,
     GitUpdates
<1>1. CASE BeginUpload
  BY <1>1 DEF BeginUpload, Reserve, Free
<1>2. CASE StartGithub
  BY <1>2 DEF StartGithub, Reserve, Free
<1>3. CASE ReceivePiece
  BY <1>3 DEF ReceivePiece
<1>4. CASE ReceiveFails
  BY <1>4 DEF ReceiveFails, AbortUpload, set_failure
<1>5. CASE PrepareSlot
  <2>1. Confirmed
    BY <1>5 DEF PrepareSlot, CanBegin
  <2>2. Other(running) \in Slots /\ Other(running) # running
    BY OtherSlot
  <2>3. content'[running] = content[running]
    BY <1>5, <2>2 DEF PrepareSlot, Erased, Target
  <2>4. QED
    BY <1>5, <2>1, <2>2, <2>3 DEF PrepareSlot
<1>6. CASE PrepareFails
  <2>1. Other(running) \in Slots /\ Other(running) # running
    BY OtherSlot
  <2>2. ~active' /\ ~restart_pending'
    BY <1>6, Zenon DEF PrepareFails, set_failure
  <2>3. CASE CanBegin /\ Erased
    <3>1. Confirmed
      BY <1>6, <2>3 DEF PrepareFails, CanBegin
    <3>2. content'[running] = content[running]
      BY <2>1, <2>3 DEF Erased, Target
    <3>3. QED
      BY <1>6, <2>1, <2>2, <3>1, <3>2 DEF PrepareFails
  <2>4. CASE UNCHANGED content
    BY <1>6, <2>2, <2>4 DEF PrepareFails
  <2>5. QED
    BY <1>6, <2>3, <2>4 DEF PrepareFails
<1>7. CASE AllocateBuffer
  BY <1>7 DEF AllocateBuffer
<1>8. CASE AllocateFails
  BY <1>8 DEF AllocateFails, AbortUpload, set_failure
<1>9. CASE EndUpload
  <2>1. Other(running) \in Slots /\ Other(running) # running
    BY OtherSlot
  <2>2. content'[running] = content[running] /\ content'[Other(running)] = image
    BY <1>9, <2>1 DEF EndUpload, Target
  <2>3. QED
    BY <1>9, <2>1, <2>2 DEF EndUpload
<1>10. CASE EndUploadFails
  BY <1>10 DEF EndUploadFails, AbortUpload, set_failure
<1>11. CASE SwitchBoot
  BY <1>11 DEF SwitchBoot, Selected, Target, set_ready
<1>12. CASE SwitchFails
  BY <1>12 DEF SwitchFails, set_failure
<1>13. CASE ScheduleRestart
  BY <1>13 DEF ScheduleRestart
<1>14. CASE ScheduleFails
  BY <1>14 DEF ScheduleFails, set_failure
<1>15. CASE SpawnGithub
  BY <1>15 DEF SpawnGithub
<1>16. CASE SpawnGithubFails
  BY <1>16 DEF SpawnGithubFails, set_failure
<1>17. CASE Connects
  BY <1>17 DEF Connects
<1>18. CASE ConnectFails
  BY <1>18 DEF ConnectFails
<1>19. CASE Describes
  <2>1. Confirmed
    BY <1>19 DEF Describes, CanBegin
  <2>2. Other(running) \in Slots /\ Other(running) # running
    BY OtherSlot
  <2>3. content'[running] = content[running]
    BY <1>19, <2>2 DEF Describes, Erased, Target
  <2>4. QED
    BY <1>19, <2>1, <2>2, <2>3 DEF Describes
<1>20. CASE Performs
  BY <1>20 DEF Performs
<1>21. CASE DownloadFails
  BY <1>21 DEF DownloadFails
<1>22. CASE AbortDownload
  BY <1>22 DEF AbortDownload
<1>23. CASE ReportFailure
  BY <1>23 DEF ReportFailure, set_failure
<1>24. CASE FinishDownload
  BY <1>24 DEF FinishDownload, Selected, Target
<1>25. CASE DownloadReady
  BY <1>25 DEF DownloadReady, set_ready
<1>26. CASE esp_restart
  BY <1>26 DEF esp_restart, Off
<1>27. CASE PowerLoss
  BY <1>27 DEF PowerLoss, Off
<1>28. CASE Bootloader
  BY <1>28 DEF Bootloader
<1>29. CASE StartFails
  BY <1>29 DEF StartFails, Off
<1>30. CASE WebServerStarts
  BY <1>30 DEF WebServerStarts
<1>31. CASE StartCompletes
  BY <1>31 DEF StartCompletes
<1>32. CASE Conflict
  BY <1>32 DEF Conflict, vars
<1> QED
    BY <1>1, <1>2, <1>3, <1>4, <1>5, <1>6, <1>7, <1>8, <1>9, <1>10, <1>11, <1>12, <1>13,
     <1>14, <1>15, <1>16, <1>17, <1>18, <1>19, <1>20, <1>21, <1>22, <1>23, <1>24, <1>25,
     <1>26, <1>27, <1>28, <1>29, <1>30, <1>31, <1>32 DEF Next, WebStep, GithubStep, Start

(* The owner's is the only handle.                                         *)
LEMMA OwnerWrites == OtaTypeOK /\ Owner => OneWriter
<1> SUFFICES ASSUME OtaTypeOK, Owner, handles # {} PROVE active /\ Cardinality(handles) = 1
  BY DEF OneWriter
<1>1. active
  BY DEF OtaTypeOK, Owner, WebUpdates, GitUpdates
<1>2. handles = {"web"} \/ handles = {"git"}
  BY DEF OtaTypeOK, Owner, WebUpdates
<1>3. Cardinality(handles) = 1
  BY <1>2, FS_Singleton
<1>4. QED
  BY <1>1, <1>3

(* What restart_pending promises.                                          *)
LEMMA SelectedIsComplete == OtaTypeOK /\ Selects => InstalledIsComplete
BY OtherSlot DEF OtaTypeOK, Selects, InstalledIsComplete

(* Every step keeps the inductive invariant.                               *)
LEMMA OtaStep == OtaInv /\ [Next]_vars => OtaInv'
<1> SUFFICES ASSUME OtaInv, [Next]_vars PROVE OtaInv'
  OBVIOUS
<1>1. CASE Next
  BY <1>1, TypeStep, OwnerStep, FlashStep DEF OtaInv
<1>2. CASE UNCHANGED vars
  BY <1>2 DEF vars, flash, status, transfer, OtaInv, OtaTypeOK, Owner, Fallback, Runs, Boots,
     Writes, Selects, Good, Confirmed, Trial
<1>3. QED
  BY <1>1, <1>2

LEMMA OtaSafe == OtaInv => OtaTypeOK /\ OneWriter /\ Fallback /\ InstalledIsComplete
BY OwnerWrites, SelectedIsComplete DEF OtaInv

----------------------------------------------------------------------------
(* Every step of the device is a step of the update, or none of it.        *)
LEMMA DeviceStepIsOtaStep == [DeviceNext]_deviceVars => [Next]_vars
BY DEF DeviceNext, deviceVars, Serves, DeviceStarts, WebServerAfterTls, Next, Start

(* The invariant of the update holds by itself and within the device:      *)
(* tls_identity_init and its failures, in app_main, disturb neither the    *)
(* update nor its slots and their rollback.                                *)
LEMMA OtaInvAlways == (Spec => []OtaInv) /\ (DeviceSpec => []OtaInv)
<1>1. DeviceInit => OtaInv
  BY InitInv DEF DeviceInit
<1>2. OtaInv /\ [DeviceNext]_deviceVars => OtaInv'
  BY DeviceStepIsOtaStep, OtaStep
<1>3. DeviceSpec => []OtaInv
  BY <1>1, <1>2, PTL DEF DeviceSpec
<1>4. Spec => []OtaInv
  BY InitInv, OtaStep, PTL DEF Spec
<1> QED
  BY <1>3, <1>4

(* For images of any size and any number of power losses, an update        *)
(* reported as installed has put a complete image into the slot that boots *)
(* next: ota_update_finish_upload and github_update_task.                  *)
THEOREM OtaCorrect == Spec => [](OtaTypeOK /\ InstalledIsComplete)
BY OtaInvAlways, OtaSafe, PTL

(* The same in the device as a whole, starts of it included.               *)
THEOREM DeviceInstalls == DeviceSpec => []InstalledIsComplete
BY OtaInvAlways, OtaSafe, PTL

(* A browser's upload and the update from GitHub never write at once: the  *)
(* flag that reserve_update takes under the lock has one owner, who has    *)
(* the only open handle.                                                   *)
THEOREM OneUpdateAtATime == DeviceSpec => []OneWriter
BY OtaInvAlways, OtaSafe, PTL

(* Wherever power is lost, in an update or in the first start after it, a  *)
(* confirmed slot with an image that works remains.                        *)
THEOREM DeviceUpdates == DeviceSpec => []Fallback
BY OtaInvAlways, OtaSafe, PTL

----------------------------------------------------------------------------
Making == {"generate", "store", "key"}

(* While an identity is being made and stored, the key of an older one is  *)
(* not in NVS, unless it was there and could not be read.                  *)
KeyStored ==
  /\ tls_key \in {None, tls_cert}
  /\ tls \in Making => tls_key = None

(* What is stored last is what is in memory.                               *)
Stores ==
  /\ tls \in {"store", "key"} => certificate = s_key /\ certificate # None
  /\ tls = "key" => tls_cert = certificate

(* As long as NVS was never lost, what was used first is what it holds.    *)
PublishedIsStored ==
  published # None => tls_cert = published /\ tls_key = published /\ tls \notin Making

TlsInv ==
  /\ TlsTypeOK
  /\ Stores
  /\ ~unread => KeyStored
  /\ losses = 0 => ~unread /\ PublishedIsStored
  /\ IdentityIsWhole
  /\ IdentityIsKept

LEMMA TlsInitInv == TlsInit => TlsInv
<1> SUFFICES ASSUME TlsInit PROVE TlsInv
  OBVIOUS
<1>1. unread \in BOOLEAN
  BY DEF TlsInit
<1>2. TlsTypeOK
  BY <1>1, TlsAssumption DEF TlsInit, TlsTypeOK, None
<1>3. Stores /\ KeyStored /\ PublishedIsStored /\ IdentityIsWhole /\ IdentityIsKept
  BY DEF TlsInit, Stores, KeyStored, PublishedIsStored, IdentityIsWhole, IdentityIsKept, Making,
     None
<1>4. ~unread
  BY DEF TlsInit
<1> QED
  BY <1>2, <1>3, <1>4 DEF TlsInv

LEMMA TlsTypeStep ==
  ASSUME TlsInv, TlsStep \/ TlsStart \/ TlsGone
  PROVE  TlsTypeOK'
<1> USE TlsAssumption DEF TlsInv, TlsTypeOK, nvs, memory, losing, None
<1>1. CASE OpenNvs
  BY <1>1 DEF OpenNvs
<1>2. CASE EraseNvs
  BY <1>2 DEF EraseNvs
<1>3. CASE load_identity
  BY <1>3 DEF load_identity, Published
<1>4. CASE NothingStored
  BY <1>4 DEF NothingStored
<1>5. CASE LoadFails
  <2>1. unread' \in BOOLEAN
    BY <1>5 DEF LoadFails
  <2> QED
    BY <1>5, <2>1 DEF LoadFails
<1>6. CASE generate_identity
  BY <1>6 DEF generate_identity
<1>7. CASE StoreCertificate
  BY <1>7 DEF StoreCertificate
<1>8. CASE StoreKey
  BY <1>8 DEF StoreKey, Published
<1>9. CASE TlsStart
  BY <1>9 DEF TlsStart
<1>10. CASE TlsGone
  BY <1>10 DEF TlsGone
<1> QED
  BY <1>1, <1>2, <1>3, <1>4, <1>5, <1>6, <1>7, <1>8, <1>9, <1>10 DEF TlsStep

LEMMA TlsStores ==
  ASSUME TlsInv, TlsStep \/ TlsStart \/ TlsGone
  PROVE  Stores'
<1> USE DEF TlsInv, TlsTypeOK, Stores, nvs, memory, losing, None
<1>1. CASE generate_identity
  BY <1>1 DEF generate_identity
<1>2. CASE StoreCertificate
  BY <1>2 DEF StoreCertificate
<1>3. CASE StoreKey
  BY <1>3 DEF StoreKey
<1>4. CASE OpenNvs \/ EraseNvs \/ load_identity \/ NothingStored \/ LoadFails \/ TlsStart \/ TlsGone
  BY <1>4 DEF OpenNvs, EraseNvs, load_identity, NothingStored, LoadFails, TlsStart, TlsGone
<1> QED
  BY <1>1, <1>2, <1>3, <1>4 DEF TlsStep

(* A start that cannot read the identity it finds, or loses it, is the     *)
(* only step that changes `unread` or `losses`.                            *)
LEMMA TlsLosses ==
  ASSUME TlsInv, TlsStep \/ TlsStart \/ TlsGone
  PROVE  /\ ~unread' => ~unread /\ ~LoadFails
         /\ losses' = 0 => losses = 0 /\ ~EraseNvs /\ ~LoadFails
         /\ losses = losses' => unread = unread'
<1> USE DEF TlsInv, TlsTypeOK, losing
<1>1. CASE EraseNvs
  BY <1>1 DEF EraseNvs, LoadFails
<1>2. CASE LoadFails
  <2>1. unread'
    BY <1>2 DEF LoadFails
  <2>2. losses' # 0 /\ losses # losses'
    BY <1>2 DEF LoadFails
  <2> QED
    BY <2>1, <2>2
<1>3. CASE ~EraseNvs /\ ~LoadFails
  BY <1>3 DEF TlsStep, OpenNvs, load_identity, NothingStored, generate_identity,
     StoreCertificate, StoreKey, TlsStart, TlsGone
<1> QED
  BY <1>1, <1>2, <1>3

LEMMA TlsKeyStored ==
  ASSUME TlsInv, TlsStep \/ TlsStart \/ TlsGone, ~unread'
  PROVE  KeyStored' /\ IdentityIsWhole'
<1>1. ~unread /\ ~LoadFails
  BY TlsLosses
<1>2. KeyStored /\ IdentityIsWhole /\ Stores
  BY <1>1 DEF TlsInv
<1> USE <1>1, <1>2
    DEF KeyStored, Stores, IdentityIsWhole, Making, Stored, nvs, memory, losing, None
<1>3. CASE OpenNvs \/ NothingStored \/ TlsStart \/ TlsGone \/ EraseNvs
  BY <1>3 DEF OpenNvs, NothingStored, TlsStart, TlsGone, EraseNvs
<1>4. CASE load_identity
  BY <1>4 DEF load_identity
<1>5. CASE generate_identity
  BY <1>5 DEF generate_identity
<1>6. CASE StoreCertificate \/ StoreKey
  BY <1>6 DEF StoreCertificate, StoreKey
<1> QED
  BY <1>3, <1>4, <1>5, <1>6 DEF TlsStep

LEMMA TlsPublished ==
  ASSUME TlsInv, TlsStep \/ TlsStart \/ TlsGone, losses' = 0
  PROVE  ~unread' /\ PublishedIsStored' /\ IdentityIsKept'
<1>1. losses = 0 /\ ~EraseNvs /\ ~LoadFails
  BY TlsLosses
<1>2. ~unread
  BY <1>1 DEF TlsInv
<1>3. ~unread'
  BY <1>1, <1>2, TlsLosses
<1>4. PublishedIsStored /\ IdentityIsKept /\ Stores /\ KeyStored
  BY <1>1, <1>2 DEF TlsInv
<1> USE <1>1, <1>4
    DEF PublishedIsStored, IdentityIsKept, Stores, KeyStored, Making, Stored, Published,
        nvs, memory, losing, None
<1>5. CASE OpenNvs \/ NothingStored \/ TlsStart \/ TlsGone
  BY <1>3, <1>5 DEF OpenNvs, NothingStored, TlsStart, TlsGone
<1>6. CASE load_identity
  BY <1>3, <1>6 DEF load_identity
<1>7. CASE generate_identity \/ StoreCertificate
  BY <1>3, <1>7 DEF generate_identity, StoreCertificate
<1>8. CASE StoreKey
  BY <1>3, <1>8 DEF StoreKey
<1> QED
  BY <1>5, <1>6, <1>7, <1>8 DEF TlsStep

LEMMA TlsStepInv == TlsInv /\ [DeviceNext]_deviceVars => TlsInv'
<1> SUFFICES ASSUME TlsInv, [DeviceNext]_deviceVars PROVE TlsInv'
  OBVIOUS
<1>1. CASE UNCHANGED tlsVars
  BY <1>1 DEF tlsVars, nvs, memory, losing, TlsInv, TlsTypeOK, Stores, KeyStored,
     PublishedIsStored, IdentityIsWhole, IdentityIsKept
<1>2. CASE TlsStep \/ TlsStart \/ TlsGone
  <2>1. TlsTypeOK' /\ Stores'
    BY <1>2, TlsTypeStep, TlsStores
  <2>2. ~unread' => KeyStored' /\ IdentityIsWhole'
    BY <1>2, TlsKeyStored
  <2>3. losses' = 0 => ~unread' /\ PublishedIsStored' /\ IdentityIsKept'
    BY <1>2, TlsPublished
  <2> QED
    BY <2>1, <2>2, <2>3 DEF TlsInv, IdentityIsWhole, IdentityIsKept
<1> QED
  BY <1>1, <1>2 DEF DeviceNext, DeviceStarts, deviceVars

LEMMA TlsInvAlways == DeviceSpec => []TlsInv
<1>1. DeviceInit => TlsInv
  BY TlsInitInv DEF DeviceInit
<1> QED
  BY <1>1, TlsStepInv, PTL DEF DeviceSpec

(* Wherever a start of the device is cut off, the certificate in use       *)
(* belongs to the key in use: load_identity, generate_identity and         *)
(* persist_identity within app_main.                                       *)
THEOREM IdentityCorrect == DeviceSpec => [](TlsTypeOK /\ IdentityIsWhole)
<1>1. TlsInv => TlsTypeOK /\ IdentityIsWhole
  BY DEF TlsInv
<1> QED
  BY <1>1, TlsInvAlways, PTL

(* The identity a client has once seen is the one every later start uses,  *)
(* as long as no start erased the flash or failed to read it.              *)
THEOREM IdentityStays == DeviceSpec => []IdentityIsKept
<1>1. TlsInv => IdentityIsKept
  BY DEF TlsInv
<1> QED
  BY <1>1, TlsInvAlways, PTL
=============================================================================
