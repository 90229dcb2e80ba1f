---------------------------- MODULE BlockCatalog ----------------------------
(***************************************************************************)
(* What the metadata store promises to its users, without counters, epochs *)
(* or tombstones: a BlockKey names one payload in every tier that          *)
(* publishes it, and a publication that somebody reads is not withdrawn.   *)
(***************************************************************************)
CONSTANTS Keys, Tiers, Descriptors, Readers,
          Absent   \* not published; not reading

VARIABLES
  published,  \* published[k][t] is the payload of k in tier t, or Absent
  reading     \* reading[r] is what reader r reads, or Absent

catalogVars == <<published, reading>>

Init ==
  /\ published = [k \in Keys |-> [t \in Tiers |-> Absent]]
  /\ reading = [r \in Readers |-> Absent]

Publish(k, t, d) ==
  /\ \A t2 \in Tiers : published[k][t2] \in {Absent, d}
  /\ published' = [published EXCEPT ![k][t] = d]
  /\ UNCHANGED reading

Withdraw(k, t) ==
  /\ \A r \in Readers : reading[r] # Absent => <<reading[r].key, reading[r].tier>> # <<k, t>>
  /\ published' = [published EXCEPT ![k][t] = Absent]
  /\ UNCHANGED reading

StartRead(r, k, t) ==
  /\ reading[r] = Absent
  /\ published[k][t] # Absent
  /\ reading' = [reading EXCEPT ![r] =
                   [key |-> k, tier |-> t, desc |-> published[k][t]]]
  /\ UNCHANGED published

EndRead(r) ==
  /\ reading' = [reading EXCEPT ![r] = Absent]
  /\ UNCHANGED published

\* The process ends: its readers are gone, what is published stays.
Restart ==
  /\ reading' = [r \in Readers |-> Absent]
  /\ UNCHANGED published

Next ==
  \/ \E k \in Keys, t \in Tiers : Withdraw(k, t) \/ \E d \in Descriptors : Publish(k, t, d)
  \/ \E r \in Readers : EndRead(r) \/ \E k \in Keys, t \in Tiers : StartRead(r, k, t)
  \/ Restart

Spec == Init /\ [][Next]_catalogVars
=============================================================================
