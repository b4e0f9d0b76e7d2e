------------------------------ MODULE OtaUpdate ------------------------------
(***************************************************************************)
(* Firmware update (main/ota_update.c with its callers in web_server.c)    *)
(* and the start of the program (main/app_main.c). An image arrives by     *)
(* upload, in the web server's task, or by download, in a task of its own; *)
(* it goes to the slot that does not run, the boot slot is switched, the   *)
(* device restarts, and an image that cannot complete its start is rolled  *)
(* back. Power may fail at any step.                                       *)
(*                                                                         *)
(* The ESP-IDF calls and the bootloader are external. esp_ota_begin erases *)
(* the slot and refuses to while the running app is unconfirmed, an end    *)
(* validates the image, set_boot makes it "new", the bootloader makes it   *)
(* "pending", and rolls back what it finds pending; it passes over a slot  *)
(* without a complete image.                                               *)
(***************************************************************************)
EXTENDS Integers, FiniteSets

CONSTANTS
  Pieces,     \* pieces an image arrives in
  MaxCrashes  \* bound on power losses and failed starts of a good image

ASSUME OtaAssumption == Pieces \in Nat \ {0} /\ MaxCrashes \in Nat

VARIABLES
  power,    \* "off", "starting", "serving" (web server up) or "up" (app_main is through)
  running, boot,
  content,  \* what each slot holds
  state,    \* the otadata state of each slot
  active, restart_pending,  \* s_status
  web,      \* where the web server's task is in an update
  git,      \* where the download task is
  image,    \* the image that arrives
  written,  \* its pieces in flash
  handles,  \* the OTA handles that are open
  restart,  \* restart_task exists
  crashes

flash == <<boot, content, state>>
status == <<active, restart_pending>>
transfer == <<image, written, handles>>
vars == <<power, running, flash, status, web, git, transfer, restart, crashes>>

Slots == {0, 1}
Other(s) == 1 - s
Images == {"works", "crashes", "garbage"}
Complete == {"works", "crashes"}

OtaTypeOK ==
  /\ power \in {"off", "starting", "serving", "up"}
  /\ running \in Slots /\ boot \in Slots
  /\ content \in [Slots -> Complete \cup {"partial"}]
  /\ state \in [Slots -> {"none", "valid", "new", "pending", "aborted"}]
  /\ active \in BOOLEAN /\ restart_pending \in BOOLEAN
  /\ web \in {"idle", "begin", "buffer", "receive", "switch", "schedule", "spawn"}
  /\ git \in {"none", "connect", "describe", "perform", "abort", "failed", "ready", "restart"}
  /\ image \in Images
  /\ written \in 0..Pieces
  /\ handles \subseteq {"web", "git"}
  /\ restart \in BOOLEAN
  /\ crashes \in 0..MaxCrashes

Init ==
  /\ power = "off"
  /\ running = 0 /\ boot = 0
  /\ content = [s \in Slots |-> IF s = 0 THEN "works" ELSE "partial"]
  /\ state = [s \in Slots |-> IF s = 0 THEN "valid" ELSE "none"]
  /\ active = FALSE /\ restart_pending = FALSE
  /\ web = "idle" /\ git = "none"
  /\ image = "works" /\ written = 0 /\ handles = {}
  /\ restart = FALSE
  /\ crashes = 0

----------------------------------------------------------------------------
(* ota_update.c's status, always changed under s_status_lock.              *)

Free == ~active /\ ~restart_pending

set_failure == active' = FALSE /\ restart_pending' = FALSE
set_ready == active' = FALSE /\ restart_pending' = TRUE

(* reserve_update, by a request the web server handles.                    *)
Reserve ==
  /\ power \in {"serving", "up"}
  /\ web = "idle"
  /\ Free
  /\ active' = TRUE
  /\ UNCHANGED restart_pending

(* ESP_ERR_INVALID_STATE and send_conflict.                                *)
Conflict ==
  /\ power \in {"serving", "up"}
  /\ web = "idle"
  /\ ~Free
  /\ UNCHANGED vars

(* A slip that a run must notice: the slot not selected for the next boot  *)
(* is taken for the one that does not run.                                 *)
TargetOfBoot == Other(boot)

(* esp_ota_get_next_update_partition(NULL).                                *)
Target == Other(running)

CanBegin == state[running] # "pending"
Erased == content' = [content EXCEPT ![Target] = "partial"]

----------------------------------------------------------------------------
(* update_upload_handler                                                   *)

BeginUpload ==
  /\ Reserve
  /\ web' = "begin"
  /\ image' \in Images
  /\ written' = 0
  /\ UNCHANGED <<power, running, flash, git, handles, restart, crashes>>

PrepareSlot ==
  /\ web = "begin"
  /\ CanBegin
  /\ Erased
  /\ handles' = handles \cup {"web"}
  /\ web' = "buffer"
  /\ UNCHANGED <<power, running, boot, state, status, git, image, written, restart, crashes>>

PrepareFails ==
  /\ web = "begin"
  /\ (CanBegin /\ Erased) \/ UNCHANGED content
  /\ set_failure
  /\ web' = "idle"
  /\ UNCHANGED <<power, running, boot, state, git, transfer, restart, crashes>>

AllocateBuffer ==
  /\ web = "buffer"
  /\ web' = "receive"
  /\ UNCHANGED <<power, running, flash, status, git, transfer, restart, crashes>>

(* ota_update_abort_upload                                                 *)
AbortUpload ==
  /\ handles' = handles \ {"web"}
  /\ set_failure
  /\ web' = "idle"
  /\ UNCHANGED <<power, running, flash, git, image, written, restart, crashes>>

(* A slip that a run must notice: the error path returns without ending    *)
(* the update.                                                             *)
AllocateFailsQuietly ==
  /\ web = "buffer"
  /\ web' = "idle"
  /\ UNCHANGED <<power, running, flash, status, git, transfer, restart, crashes>>

AllocateFails == web = "buffer" /\ AbortUpload

(* httpd_req_recv and ota_update_write; a receive timeout is tried again,  *)
(* without limit.                                                          *)
ReceivePiece ==
  /\ web = "receive"
  /\ written < Pieces
  /\ written' = written + 1
  /\ UNCHANGED <<power, running, flash, status, web, git, image, handles, restart, crashes>>

ReceiveFails == web = "receive" /\ written < Pieces /\ AbortUpload

(* A slip that a run must notice: the result of esp_ota_end is ignored.    *)
EndUploadUnchecked ==
  /\ web = "receive" /\ written = Pieces
  /\ handles' = handles \ {"web"}
  /\ web' = "switch"
  /\ content' = IF image \in Complete THEN [content EXCEPT ![Target] = image] ELSE content
  /\ UNCHANGED <<power, running, boot, state, status, git, image, written, restart, crashes>>

(* ota_update_finish_upload: esp_ota_end closes the handle in any case.    *)
EndUpload ==
  /\ web = "receive" /\ written = Pieces
  /\ image \in Complete
  /\ handles' = handles \ {"web"}
  /\ content' = [content EXCEPT ![Target] = image]
  /\ web' = "switch"
  /\ UNCHANGED <<power, running, boot, state, status, git, image, written, restart, crashes>>

EndUploadFails ==
  /\ web = "receive" /\ written = Pieces
  /\ AbortUpload

Selected == boot' = Target /\ state' = [state EXCEPT ![Target] = "new"]

SwitchBoot ==
  /\ web = "switch"
  /\ Selected
  /\ set_ready
  /\ web' = "schedule"
  /\ UNCHANGED <<power, running, content, git, transfer, restart, crashes>>

SwitchFails ==
  /\ web = "switch"
  /\ set_failure
  /\ web' = "idle"
  /\ UNCHANGED <<power, running, flash, git, transfer, restart, crashes>>

ScheduleRestart ==
  /\ web = "schedule"
  /\ restart' = TRUE
  /\ web' = "idle"
  /\ UNCHANGED <<power, running, flash, status, git, transfer, crashes>>

(* A slip that a run must notice: the missing task is only logged.         *)
ScheduleFailsQuietly ==
  /\ web = "schedule"
  /\ web' = "idle"
  /\ UNCHANGED <<power, running, flash, status, git, transfer, restart, crashes>>

(* The new image is selected, but nothing will restart the device; another *)
(* update may be started.                                                  *)
ScheduleFails ==
  /\ web = "schedule"
  /\ set_failure
  /\ web' = "idle"
  /\ UNCHANGED <<power, running, flash, git, transfer, restart, crashes>>

----------------------------------------------------------------------------
(* update_github_handler and github_update_task                            *)

StartGithub ==
  /\ Reserve
  /\ web' = "spawn"
  /\ UNCHANGED <<power, running, flash, git, transfer, restart, crashes>>

SpawnGithub ==
  /\ web = "spawn"
  /\ web' = "idle"
  /\ git' = "connect"
  /\ UNCHANGED <<power, running, flash, status, transfer, restart, crashes>>

SpawnGithubFails ==
  /\ web = "spawn"
  /\ set_failure
  /\ web' = "idle"
  /\ UNCHANGED <<power, running, flash, git, transfer, restart, crashes>>

(* The clock is set, esp_https_ota_begin connects.                         *)
Connects ==
  /\ git = "connect"
  /\ git' = "describe"
  /\ handles' = handles \cup {"git"}
  /\ image' \in Images
  /\ written' = 0
  /\ UNCHANGED <<power, running, flash, status, web, restart, crashes>>

ConnectFails ==
  /\ git = "connect"
  /\ git' = "failed"
  /\ UNCHANGED <<power, running, flash, status, web, transfer, restart, crashes>>

(* The image's description is read, then the slot is erased.               *)
Describes ==
  /\ git = "describe"
  /\ CanBegin
  /\ Erased
  /\ git' = "perform"
  /\ UNCHANGED <<power, running, boot, state, status, web, transfer, restart, crashes>>

(* A piece arrives. Until it does, the task goes round its loop.           *)
Performs ==
  /\ git = "perform"
  /\ written < Pieces
  /\ written' = written + 1
  /\ UNCHANGED <<power, running, flash, status, web, git, image, handles, restart, crashes>>

DownloadFails ==
  /\ git \in {"describe", "perform"}
  /\ git' = "abort"
  /\ UNCHANGED <<power, running, flash, status, web, transfer, restart, crashes>>

(* A slip that a run must notice: the failure is reported first.           *)
AbortDownloadLate ==
  /\ git = "abort"
  /\ set_failure
  /\ git' = "none"
  /\ UNCHANGED <<power, running, flash, web, transfer, restart, crashes>>

AbortDownload ==
  /\ git = "abort"
  /\ handles' = handles \ {"git"}
  /\ git' = "failed"
  /\ UNCHANGED <<power, running, flash, status, web, image, written, restart, crashes>>

ReportFailure ==
  /\ git = "failed"
  /\ set_failure
  /\ git' = "none"
  /\ UNCHANGED <<power, running, flash, web, transfer, restart, crashes>>

(* esp_https_ota_finish: the handle is closed, the image validated and the *)
(* boot slot switched.                                                     *)
FinishDownload ==
  /\ git = "perform" /\ written = Pieces
  /\ handles' = handles \ {"git"}
  /\ \/ /\ image \in Complete
        /\ content' = [content EXCEPT ![Target] = image]
        /\ Selected
        /\ git' = "ready"
     \/ /\ git' = "failed"
        /\ UNCHANGED flash
  /\ UNCHANGED <<power, running, status, web, image, written, restart, crashes>>

DownloadReady ==
  /\ git = "ready"
  /\ set_ready
  /\ git' = "restart"
  /\ UNCHANGED <<power, running, flash, web, transfer, restart, crashes>>

----------------------------------------------------------------------------
(* Restart, power loss, bootloader and app_main.                           *)

(* Memory is gone, flash stays.                                            *)
Off ==
  /\ power' = "off"
  /\ active' = FALSE /\ restart_pending' = FALSE
  /\ web' = "idle" /\ git' = "none"
  /\ image' = "works" /\ written' = 0 /\ handles' = {}
  /\ restart' = FALSE
  /\ UNCHANGED <<running, flash>>

esp_restart ==
  /\ restart \/ git = "restart"
  /\ Off
  /\ UNCHANGED crashes

PowerLoss ==
  /\ power # "off"
  /\ crashes < MaxCrashes
  /\ Off
  /\ crashes' = crashes + 1

(* The bootloader: what is still pending has failed and is given up for    *)
(* the other slot, what is new gets its one try.                           *)
Bootloader ==
  LET chosen == IF state[boot] = "pending" THEN Other(boot) ELSE boot
  IN  /\ power = "off"
      /\ boot' = chosen
      /\ state' = [s \in Slots |->
                     CASE state[s] = "pending" -> "aborted"
                       [] state[s] = "new" /\ s = chosen -> "pending"
                       [] OTHER -> state[s]]
      /\ \E s \in Slots :
           /\ content[s] \in Complete
           /\ s = chosen \/ content[chosen] \notin Complete
           /\ running' = s
      /\ power' = "starting"
      /\ UNCHANGED <<content, status, web, git, transfer, restart, crashes>>

(* ESP_ERROR_CHECK aborts: always at some point in an image that does not  *)
(* work, now and then in one that does.                                    *)
StartFails ==
  /\ power \in {"starting", "serving"}
  /\ \/ content[running] = "crashes" /\ UNCHANGED crashes
     \/ /\ content[running] = "works" /\ crashes < MaxCrashes
        /\ crashes' = crashes + 1
  /\ Off

(* A slip that a run must notice: the image is confirmed before the rest   *)
(* of the start.                                                           *)
WebServerStartsConfirmed ==
  /\ power = "starting"
  /\ power' = "serving"
  /\ state' = [state EXCEPT ![running] = IF @ = "pending" THEN "valid" ELSE @]
  /\ UNCHANGED <<running, boot, content, status, web, git, transfer, restart, crashes>>

WebServerStarts ==
  /\ power = "starting"
  /\ power' = "serving"
  /\ UNCHANGED <<running, flash, status, web, git, transfer, restart, crashes>>

(* esp_ota_mark_app_valid_cancel_rollback at the end of app_main.          *)
StartCompletes ==
  /\ power = "serving"
  /\ content[running] = "works"
  /\ power' = "up"
  /\ state' = [state EXCEPT ![running] = IF @ = "pending" THEN "valid" ELSE @]
  /\ UNCHANGED <<running, boot, content, status, web, git, transfer, restart, crashes>>

----------------------------------------------------------------------------
WebStep ==
  \/ PrepareSlot \/ PrepareFails \/ AllocateBuffer \/ AllocateFails
  \/ EndUpload \/ EndUploadFails \/ SwitchBoot \/ SwitchFails
  \/ ScheduleRestart \/ ScheduleFails \/ SpawnGithub \/ SpawnGithubFails

GithubStep ==
  \/ Connects \/ ConnectFails \/ Describes \/ Performs \/ DownloadFails
  \/ AbortDownload \/ ReportFailure \/ FinishDownload \/ DownloadReady

Start == Bootloader \/ StartFails \/ WebServerStarts \/ StartCompletes

Next ==
  \/ BeginUpload \/ StartGithub \/ Conflict \/ ReceivePiece \/ ReceiveFails
  \/ WebStep \/ GithubStep \/ esp_restart \/ PowerLoss \/ Start

(* The two waits without limit: the upload goes on after every receive     *)
(* timeout, and the download while esp_https_ota_perform says that it is   *)
(* in progress, which it also says when a read has timed out.              *)
Stalled == written < Pieces /\ git = "perform"
Waiting == Stalled \/ (written < Pieces /\ web = "receive")

(* Tasks run on and the device starts while it has power; the other calls  *)
(* of the download have time limits. Nothing makes the uploading client or *)
(* the server of the image go on.                                          *)
(* Updates are accepted before app_main is through, but they restart the   *)
(* device with a delay of 1.5 s or more, and app_main waits for none of    *)
(* them: it cannot be cut short on every start of an image that works.     *)
Fairness ==
  /\ WF_vars(WebStep) /\ WF_vars(GithubStep /\ ~Stalled)
  /\ WF_vars(esp_restart)
  /\ WF_vars(Start) /\ SF_vars(StartCompletes)

Spec == Init /\ [][Next]_vars /\ Fairness

----------------------------------------------------------------------------
(* An update is written by one task at a time, and as long as a handle is  *)
(* open nobody else can reserve the update: every failure path closes its  *)
(* handle before it reports.                                               *)
OneWriter == handles # {} => active /\ Cardinality(handles) = 1

(* There is always a confirmed slot with an image that works, which no     *)
(* update under way, failed, repeated or cut off by a power loss touches:  *)
(* the device cannot be lost.                                              *)
Fallback == \E s \in Slots : state[s] = "valid" /\ content[s] = "works"

(* "Update installed; restarting" is true: the slot the device will boot   *)
(* is not the running one and holds a complete, validated image.           *)
InstalledIsComplete ==
  restart_pending => boot # running /\ content[boot] \in Complete /\ state[boot] = "new"

(* Whatever fails, an update ends and the next one can be reserved, unless *)
(* the client that uploads the image, or the server it is downloaded from, *)
(* is silent for ever. No failure of the device's own keeps the update     *)
(* reserved.                                                               *)
UpdateEnds == <>[]Waiting \/ (active ~> ~active)

(* A device that says it restarts does, or takes it back; it does not      *)
(* refuse updates for ever.                                                *)
ReadyRestarts == restart_pending ~> ~restart_pending

(* "If the updated app cannot complete its startup checks, the bootloader  *)
(* rolls back": the device always comes up again, also with an image that  *)
(* crashes on every start.                                                 *)
DeviceComesBack == []<>(power = "up")
=============================================================================
