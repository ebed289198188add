-------------------------- MODULE SignatureRegistry --------------------------
(***************************************************************************)
(* What the receiver promises about signature records, without requests,   *)
(* storage, failures or interleavings: a public id is reserved once for    *)
(* one device, at most one document is ever recorded for it, the record    *)
(* belongs to the reserving account and device, a record that claims       *)
(* server verification names a certificate of that device and a sound      *)
(* document carrying the public id, and a client is only ever told the     *)
(* hash that is on record.  Submission.tla implements this specification.  *)
(***************************************************************************)
CONSTANTS Account, Device, Cert, PublicId, Doc, DeviceOwner, CertDevice, None

VARIABLES
  reserved,   \* [PublicId -> None or the owner of the reservation]
  recorded,   \* [PublicId -> None or the signature record]
  acked       \* set of <<public id, hash>> pairs told to clients as recorded

registryVars == <<reserved, recorded, acked>>

RegistryInit ==
  /\ reserved = [p \in PublicId |-> None]
  /\ recorded = [p \in PublicId |-> None]
  /\ acked = {}

Reserve(p, d) ==
  /\ reserved[p] = None
  /\ reserved' = [reserved EXCEPT ![p] = [account |-> DeviceOwner[d], device |-> d]]
  /\ UNCHANGED <<recorded, acked>>

(* c = None is a document stored without server verification. *)
Record(p, doc, c) ==
  /\ reserved[p] # None
  /\ recorded[p] = None
  /\ c # None => /\ doc.sound
                 /\ doc.pid = p
                 /\ doc.cert = c
                 /\ CertDevice[c] = reserved[p].device
  /\ recorded' = [recorded EXCEPT ![p] =
                    [account |-> reserved[p].account, device |-> reserved[p].device,
                     cert |-> c, hash |-> doc]]
  /\ UNCHANGED <<reserved, acked>>

Acknowledge(p) ==
  /\ recorded[p] # None
  /\ acked' = acked \cup {<<p, recorded[p].hash>>}
  /\ UNCHANGED <<reserved, recorded>>

RegistryNext ==
  \/ \E p \in PublicId, d \in Device : Reserve(p, d)
  \/ \E p \in PublicId, doc \in Doc, c \in Cert \cup {None} : Record(p, doc, c)
  \/ \E p \in PublicId : Acknowledge(p)

RegistrySpec == RegistryInit /\ [][RegistryNext]_registryVars
=============================================================================
