----------------------------- MODULE TlsIdentity -----------------------------
(***************************************************************************)
(* The certificate and the key of the IPPS listener (main/tls_identity.c): *)
(* loaded from NVS at every start, made and stored when that fails. They   *)
(* are two NVS blobs, and power may fail between them.                     *)
(*                                                                         *)
(* An identity is the number of the key it was made with. NVS is external: *)
(* a blob is stored whole or not at all, and in order. That a store not    *)
(* yet committed is lost with the power is a loss one step earlier.        *)
(***************************************************************************)
EXTENDS Integers

CONSTANTS
  MaxLost  \* bound on starts that lose the stored identity

ASSUME TlsAssumption == MaxLost \in Nat

None == 0  \* no blob, no certificate

VARIABLES
  tls,        \* where tls_identity_init is
  tls_cert, tls_key,      \* the blobs in NVS
  certificate, s_key,     \* s_certificate and s_key, in memory
  made,       \* history variable: how many identities were made
  published,  \* history variable: the certificate first used
  losses,     \* history variable: the starts that could not use NVS,
  unread      \* and whether one of them left an identity in it

nvs == <<tls_cert, tls_key>>
memory == <<certificate, s_key>>
losing == <<losses, unread>>
tlsVars == <<tls, nvs, memory, made, published, losing>>

TlsTypeOK ==
  /\ tls \in {"off", "nvs", "load", "generate", "store", "key", "ready"}
  /\ made \in Nat
  /\ tls_cert \in 0..made /\ tls_key \in 0..made
  /\ certificate \in 0..made /\ s_key \in 0..made
  /\ published \in 0..made
  /\ losses \in 0..MaxLost /\ unread \in BOOLEAN

TlsInit ==
  /\ tls = "off"
  /\ tls_cert = None /\ tls_key = None
  /\ certificate = None /\ s_key = None
  /\ made = 0 /\ published = None
  /\ losses = 0 /\ unread = FALSE

----------------------------------------------------------------------------
(* app_main: nvs_flash_init.                                               *)
OpenNvs ==
  /\ tls = "nvs"
  /\ tls' = "load"
  /\ UNCHANGED <<nvs, memory, made, published, losing>>

(* Its pages are full or of another version, and it is erased.             *)
EraseNvs ==
  /\ tls = "nvs"
  /\ losses < MaxLost
  /\ losses' = losses + 1
  /\ tls_cert' = None /\ tls_key' = None
  /\ tls' = "load"
  /\ UNCHANGED <<memory, made, published, unread>>

(* A slip that a run must notice: only the certificate is looked for.      *)
CertificateStored == tls_cert # None

Stored == tls_cert # None /\ tls_key # None

(* What the web server offers for download once the identity is ready.     *)
Published(cert) == IF published = None THEN cert ELSE published

(* load_identity: both blobs are read and parsed. Nothing compares them.   *)
load_identity ==
  /\ tls = "load"
  /\ Stored
  /\ certificate' = tls_cert /\ s_key' = tls_key
  /\ published' = Published(tls_cert)
  /\ tls' = "ready"
  /\ UNCHANGED <<nvs, made, losing>>

(* A blob is missing.                                                      *)
NothingStored ==
  /\ tls = "load"
  /\ ~Stored
  /\ tls' = "generate"
  /\ UNCHANGED <<nvs, memory, made, published, losing>>

(* Reading or parsing what is there fails, for want of memory, say: it is  *)
(* given up like a missing one.                                            *)
LoadFails ==
  /\ tls = "load"
  /\ Stored
  /\ losses < MaxLost
  /\ losses' = losses + 1
  /\ unread' = TRUE
  /\ tls' = "generate"
  /\ UNCHANGED <<nvs, memory, made, published>>

generate_identity ==
  /\ tls = "generate"
  /\ made' = made + 1
  /\ certificate' = made' /\ s_key' = made'
  /\ tls' = "store"
  /\ UNCHANGED <<nvs, published, losing>>

(* persist_identity                                                        *)
StoreCertificate ==
  /\ tls = "store"
  /\ tls_cert' = certificate
  /\ tls' = "key"
  /\ UNCHANGED <<tls_key, memory, made, published, losing>>

(* A slip that a run must notice: a store that fails is only logged, and   *)
(* the new identity used anyway.                                           *)
StoreKeyUnchecked ==
  /\ tls = "key"
  /\ tls_key' \in {tls_key, s_key}
  /\ published' = Published(certificate)
  /\ tls' = "ready"
  /\ UNCHANGED <<tls_cert, memory, made, losing>>

StoreKey ==
  /\ tls = "key"
  /\ tls_key' = s_key
  /\ published' = Published(certificate)
  /\ tls' = "ready"
  /\ UNCHANGED <<tls_cert, memory, made, losing>>

(* Power is gone or app_main has aborted, as it does when an identity can  *)
(* neither be loaded nor be made and stored.                               *)
TlsGone ==
  /\ tls' = "off"
  /\ certificate' = None /\ s_key' = None
  /\ UNCHANGED <<nvs, made, published, losing>>

TlsStart ==
  /\ tls = "off"
  /\ tls' = "nvs"
  /\ UNCHANGED <<nvs, memory, made, published, losing>>

TlsStep ==
  \/ OpenNvs \/ EraseNvs \/ load_identity \/ NothingStored \/ LoadFails
  \/ generate_identity \/ StoreCertificate \/ StoreKey

----------------------------------------------------------------------------
(* The listener's certificate belongs to its key, wherever earlier starts  *)
(* were cut off: an identity stored by half is not used but made again.    *)
(* (An identity that is there but cannot be read is overwritten; cut off   *)
(* there, the device keeps the certificate of one and the key of another.) *)
IdentityIsWhole == tls = "ready" /\ ~unread => certificate = s_key

(* "Persistent per-device certificate": the one a client has downloaded    *)
(* and trusts is the one every later start uses, unless NVS loses it.      *)
IdentityIsKept == tls = "ready" /\ losses = 0 => certificate = published
=============================================================================
