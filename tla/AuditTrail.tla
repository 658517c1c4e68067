----------------------------- MODULE AuditTrail -----------------------------
(***************************************************************************)
(* The audit trail: an append-order hash chain in one table, written by    *)
(* whatever process audits something, and checked on demand.               *)
(*                                                                         *)
(*   audit/logger.py         AuditLogger                                   *)
(*   database/repository.py  AuditRepository                               *)
(*   database/db.py          init_db, the v2 to v3 backfill                *)
(*                                                                         *)
(* SHA-256 of "previous:content" is modelled as collision free: the hash   *)
(* of a record is the sequence of the contents it covers, oldest first.    *)
(* A write is one BEGIN IMMEDIATE transaction, and so is the backfill      *)
(* (its DELETE takes the write lock that its commit releases).             *)
(***************************************************************************)
EXTENDS Integers, Sequences

CONSTANTS
  Entry,      \* contents of audit records
  Forged,     \* contents a record may be edited to behind the engine's back
  V2Entry,    \* contents of the records the v2 engine left behind
  NoHash,     \* a v2 record has no hash
  MaxTrail,   \* bound on the number of records
  MaxV2       \* bound on the number of those

ASSUME TrailAssumption ==
  /\ Forged \subseteq Entry /\ V2Entry \subseteq Entry
  /\ NoHash \notin Seq(Entry)
  /\ MaxTrail \in Nat /\ MaxV2 \in 0 .. MaxTrail

VARIABLES
  trail,    \* audit_trail in rowid order
  ledger,   \* history: the contents recorded, in the order they were recorded
  ready     \* init_db has run, so v3 writers exist

trailVars == <<trail, ledger, ready>>

Hash == Seq(Entry) \cup {NoHash}
Record == [entry : Entry, prev : Hash, hash : Hash]

GENESIS == << >>
Digest(prev, e) == Append(prev, e)
Contents(t) == [i \in 1 .. Len(t) |-> t[i].entry]

\* The newest record, and what is left when one is deleted.
Newest(t) == t[Len(t)]
Without(t, i) == SubSeq(t, 1, i - 1) \o SubSeq(t, i + 1, Len(t))

\* AuditRepository.write: the hash of the newest record, if it has one.
HeadHash(t) == IF t # << >> /\ Newest(t).hash # NoHash THEN Newest(t).hash ELSE GENESIS

\* Slip: the new record is linked to the first record, not to the newest one.
Appended_ToFirst(t, e) ==
  LET prev == IF t # << >> THEN t[1].hash ELSE GENESIS
  IN  Append(t, [entry |-> e, prev |-> prev, hash |-> Digest(prev, e)])

Appended(t, e) ==
  Append(t, [entry |-> e, prev |-> HeadHash(t), hash |-> Digest(HeadHash(t), e)])

\* init_db: a record without a hash is chained to the one before it, one that
\* has a hash keeps it.
HashedUpTo(t, i) == {j \in 1 .. i : t[j].hash # NoHash}
ChainHash(t, i) ==
  IF HashedUpTo(t, i) = {} THEN SubSeq(Contents(t), 1, i)
  ELSE LET j == CHOOSE j \in HashedUpTo(t, i) : \A k \in HashedUpTo(t, i) : k <= j
       IN  t[j].hash \o SubSeq(Contents(t), j + 1, i)

Backfilled(t) ==
  [i \in 1 .. Len(t) |->
     IF t[i].hash # NoHash THEN t[i]
     ELSE [entry |-> t[i].entry, prev |-> ChainHash(t, i - 1), hash |-> ChainHash(t, i)]]

\* AuditRepository.verify_chain
VerifyChain(t) ==
  \A i \in 1 .. Len(t) :
    /\ t[i].prev = SubSeq(Contents(t), 1, i - 1)
    /\ t[i].hash = SubSeq(Contents(t), 1, i)

TrailInit ==
  /\ ledger \in UNION {[1 .. n -> V2Entry] : n \in 0 .. MaxV2}
  /\ trail = [i \in 1 .. Len(ledger) |-> [entry |-> ledger[i], prev |-> NoHash, hash |-> NoHash]]
  /\ ready = FALSE

InitDb ==
  /\ trail' = Backfilled(trail)
  /\ ready' = TRUE
  /\ UNCHANGED ledger

\* AuditLogger.log: a failed write is logged and swallowed, the caller goes on.
Log(e) ==
  /\ ready
  /\ Len(trail) < MaxTrail
  /\ trail' = Appended(trail, e)
  /\ ledger' = Append(ledger, e)
  /\ UNCHANGED ready

LogLost == ready /\ UNCHANGED trailVars

\* Changes made to the table by something other than the engine.
Edit(i, e) ==
  /\ ready
  /\ trail' = [trail EXCEPT ![i].entry = e]
  /\ UNCHANGED <<ledger, ready>>

DeleteMiddle(i) ==
  /\ ready
  /\ i < Len(trail)
  /\ trail' = Without(trail, i)
  /\ UNCHANGED <<ledger, ready>>

Outside == \E i \in 1 .. Len(trail) : DeleteMiddle(i) \/ \E e \in Forged : Edit(i, e)

TrailNext ==
  \/ InitDb
  \/ \E e \in Entry : Log(e)
  \/ Outside

TrailSpec == TrailInit /\ [][TrailNext]_trailVars

-----------------------------------------------------------------------------

TrailTypeOK ==
  /\ trail \in Seq(Record)
  /\ ledger \in Seq(Entry)
  /\ ready \in BOOLEAN

\* verify_chain answers "valid" exactly when the table holds what was recorded,
\* whatever writers, restarts and the backfill did in between: core-engine.md
\* promises that modification and middle-record deletion are detected, and a
\* chain that breaks by itself would make that detection worthless.
ChainTellsTampering == ready => (VerifyChain(trail) <=> Contents(trail) = ledger)

=============================================================================
