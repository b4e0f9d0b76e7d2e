----------------------------- MODULE DeviceStart -----------------------------
(***************************************************************************)
(* The start of the device (main/app_main.c): the bootloader, the TLS      *)
(* identity, the web server, the rest, the confirmation of the image. A    *)
(* start that fails in the TLS identity is as fatal to an image on trial   *)
(* as any other, and a device that starts over again and again must not    *)
(* change its certificate on the way.                                      *)
(***************************************************************************)
EXTENDS OtaUpdate, TlsIdentity

deviceVars == <<vars, tlsVars>>

DeviceInit == Init /\ TlsInit

(* The update in a device that has its identity, and the end of app_main.  *)
Serves ==
  \/ BeginUpload \/ StartGithub \/ Conflict \/ ReceivePiece \/ ReceiveFails
  \/ WebStep \/ GithubStep \/ StartCompletes

WebServerAfterTls == WebServerStarts /\ tls = "ready"

DeviceStarts ==
  \/ Bootloader /\ TlsStart
  \/ TlsStep /\ UNCHANGED vars
  \/ WebServerAfterTls /\ UNCHANGED tlsVars
  \/ StartFails /\ TlsGone

DeviceNext ==
  \/ Serves /\ UNCHANGED tlsVars
  \/ (esp_restart \/ PowerLoss) /\ TlsGone
  \/ DeviceStarts

(* As in OtaUpdate; every step of tls_identity_init ends by itself.        *)
DeviceFairness ==
  /\ WF_deviceVars(WebStep /\ UNCHANGED tlsVars)
  /\ WF_deviceVars(GithubStep /\ ~Stalled /\ UNCHANGED tlsVars)
  /\ WF_deviceVars(esp_restart /\ TlsGone)
  /\ WF_deviceVars(DeviceStarts)
  /\ SF_deviceVars(StartCompletes /\ UNCHANGED tlsVars)

DeviceSpec == DeviceInit /\ [][DeviceNext]_deviceVars /\ DeviceFairness
=============================================================================
