----------------------- MODULE ProcedureExecutorProofs -----------------------
(***************************************************************************)
(* Proofs about ProcedureExecutor and the AuditTrail it writes, for any    *)
(* procedures, executors and callers, any number of calls and records, and *)
(* any v2 records left behind.                                             *)
(***************************************************************************)
EXTENDS ProcedureExecutor, SequenceTheorems, TLAPS

-----------------------------------------------------------------------------
(* The audit trail. *)

\* Until init_db runs the table is what the v2 engine recorded, without hashes.
\* From then on every record is hashed, and the newest hash covers the whole ledger:
\* no edit changes a hash and no deletion reaches the newest record.  While as many
\* records are stored as were recorded, none was deleted, and each hash covers the
\* ledger up to its record.
TrailInv ==
  /\ TrailTypeOK
  /\ ~ ready =>
       /\ Len(trail) = Len(ledger)
       /\ \A i \in 1 .. Len(trail) : trail[i].entry = ledger[i] /\ trail[i].hash = NoHash
  /\ ready =>
       /\ \A i \in 1 .. Len(trail) : trail[i].hash # NoHash
       /\ Len(trail) <= Len(ledger)
       /\ trail = << >> => ledger = << >>
       /\ trail # << >> => trail[Len(trail)].hash = ledger
       /\ Len(trail) = Len(ledger) =>
            \A i \in 1 .. Len(trail) :
              trail[i].hash = SubSeq(ledger, 1, i) /\ trail[i].prev = SubSeq(ledger, 1, i - 1)

\* The contents of a table are a sequence of entries as long as the table.
LEMMA ContentsOf ==
  ASSUME NEW t \in Seq(Record)
  PROVE  /\ Contents(t) \in Seq(Entry)
         /\ Len(Contents(t)) = Len(t)
         /\ \A i \in 1 .. Len(t) : Contents(t)[i] = t[i].entry
<1>1. Len(t) \in Nat /\ \A i \in 1 .. Len(t) : t[i] \in Record
  BY Zenon, LenProperties, ElementOfSeq
<1>2. \A i \in 1 .. Len(t) : t[i].entry \in Entry
  BY Zenon, <1>1 DEF Record
<1>3. Contents(t) \in [1 .. Len(t) -> Entry]
  BY Zenon, <1>2 DEF Contents
<1>4. Contents(t) \in Seq(Entry)
  BY Zenon, <1>1, <1>3, SeqDef
<1>5. Len(Contents(t)) = Len(t)
  BY <1>1, <1>3, <1>4, LenProperties
<1> QED
  BY Zenon, <1>1, <1>4, <1>5 DEF Contents

\* A prefix of a sequence is a sequence, and appending leaves the prefixes alone.
LEMMA PrefixOf ==
  ASSUME NEW S, NEW s \in Seq(S), NEW e \in S, NEW i \in 0 .. Len(s)
  PROVE  /\ SubSeq(s, 1, i) \in Seq(S)
         /\ SubSeq(Append(s, e), 1, i) = SubSeq(s, 1, i)
<1>1. Len(s) \in Nat /\ \A k \in 1 .. Len(s) : s[k] \in S
  BY Zenon, LenProperties, ElementOfSeq
<1> DEFINE a == Append(s, e)
<1>2. a \in Seq(S) /\ Len(a) = Len(s) + 1 /\ \A k \in 1 .. Len(s) : a[k] = s[k]
  BY AppendProperties
<1> HIDE DEF a
<1>3. i \in Int /\ 1 \in Int /\ \A k \in 1 .. i : s[k] \in S /\ a[k] = s[k]
  BY <1>1, <1>2
<1>4. /\ SubSeq(s, 1, i) \in Seq(S)
      /\ Len(SubSeq(s, 1, i)) = IF 1 <= i THEN i - 1 + 1 ELSE 0
      /\ \A k \in 1 .. i - 1 + 1 : SubSeq(s, 1, i)[k] = s[1 + k - 1]
  BY <1>3, SubSeqProperties
<1>5. \A k \in 1 .. i : a[k] \in S
  BY Zenon, <1>3
<1>6. /\ SubSeq(a, 1, i) \in Seq(S)
      /\ Len(SubSeq(a, 1, i)) = IF 1 <= i THEN i - 1 + 1 ELSE 0
      /\ \A k \in 1 .. i - 1 + 1 : SubSeq(a, 1, i)[k] = a[1 + k - 1]
  BY <1>3, <1>5, SubSeqProperties
<1>7. Len(SubSeq(s, 1, i)) = i /\ Len(SubSeq(a, 1, i)) = i
  BY <1>1, <1>4, <1>6
<1>8. \A k \in 1 .. i : SubSeq(a, 1, i)[k] = SubSeq(s, 1, i)[k]
  BY <1>1, <1>3, <1>4, <1>6
<1>9. SubSeq(a, 1, i) = SubSeq(s, 1, i)
  BY Zenon, <1>4, <1>6, <1>7, <1>8, SeqEqual
<1> QED
  BY Zenon, <1>4, <1>9 DEF a

\* verify_chain answers "valid" exactly when the table holds the ledger.
LEMMA TrailInvTells ==
  ASSUME TrailInv
  PROVE  ChainTellsTampering
<1> SUFFICES ASSUME ready
             PROVE  VerifyChain(trail) <=> Contents(trail) = ledger
  BY Zenon DEF ChainTellsTampering
<1>1. trail \in Seq(Record) /\ ledger \in Seq(Entry)
  BY Zenon DEF TrailInv, TrailTypeOK
<1>2. /\ Contents(trail) \in Seq(Entry)
      /\ Len(Contents(trail)) = Len(trail)
      /\ Len(trail) \in Nat /\ Len(ledger) \in Nat
  BY Zenon, <1>1, ContentsOf, LenProperties
<1>3. ASSUME VerifyChain(trail)
      PROVE  Contents(trail) = ledger
  <2>1. CASE trail = << >>
    <3>1. ledger = << >> /\ Len(Contents(trail)) = 0 /\ Len(ledger) = 0
      BY Zenon, <1>2, <2>1 DEF TrailInv
    <3>2. \A i \in 1 .. Len(Contents(trail)) : Contents(trail)[i] = ledger[i]
      BY <3>1
    <3> QED
      BY Zenon, <1>1, <1>2, <3>1, <3>2, SeqEqual
  <2>2. CASE trail # << >>
    <3>1. Len(trail) \in 1 .. Len(trail)
      BY <1>1, <1>2, <2>2, EmptySeq, LenProperties
    <3>2. trail[Len(trail)].hash = SubSeq(Contents(trail), 1, Len(Contents(trail)))
      BY Zenon, <1>2, <1>3, <3>1 DEF VerifyChain
    <3>3. trail[Len(trail)].hash = ledger
      BY Zenon, <2>2 DEF TrailInv
    <3>4. SubSeq(Contents(trail), 1, Len(Contents(trail))) = Contents(trail)
      BY Zenon, <1>2, SubSeqFull
    <3> QED
      BY Zenon, <3>2, <3>3, <3>4
  <2> QED
    BY Zenon, <2>1, <2>2
<1>4. ASSUME Contents(trail) = ledger
      PROVE  VerifyChain(trail)
  BY Zenon, <1>2, <1>4 DEF VerifyChain, TrailInv
<1> QED
  BY Zenon, <1>3, <1>4

\* The table the v2 engine left behind.
LEMMA TrailStarts ==
  ASSUME TrailInit
  PROVE  TrailInv
<1>1. PICK n \in 0 .. MaxV2 : ledger \in [1 .. n -> V2Entry]
  BY Zenon DEF TrailInit
<1>2. n \in Nat /\ ledger \in [1 .. n -> Entry]
  BY <1>1, TrailAssumption
<1>3. ledger \in Seq(Entry) /\ Len(ledger) = n
  BY <1>2, SeqDef, LenProperties
<1>4. trail = [i \in 1 .. n |-> [entry |-> ledger[i], prev |-> NoHash, hash |-> NoHash]]
  BY Zenon, <1>3 DEF TrailInit
<1>5. trail \in [1 .. n -> Record]
  BY Zenon, <1>2, <1>4 DEF Record, Hash
<1>6. trail \in Seq(Record) /\ Len(trail) = n
  BY <1>2, <1>5, SeqDef, LenProperties
<1>7. ready = FALSE
  BY Zenon DEF TrailInit
<1>8. \A i \in 1 .. n : trail[i].entry = ledger[i] /\ trail[i].hash = NoHash
  BY Zenon, <1>4
<1> QED
  BY Zenon, <1>3, <1>6, <1>7, <1>8 DEF TrailInv, TrailTypeOK

\* The backfill hashes a table without hashes from its start, and leaves a table
\* that is hashed as it is.
LEMMA InitDbInv ==
  ASSUME TrailInv, InitDb
  PROVE  TrailInv'
<1>1. /\ trail \in Seq(Record) /\ ledger \in Seq(Entry)
      /\ Len(trail) \in Nat /\ Len(ledger) \in Nat
      /\ \A i \in 1 .. Len(trail) : trail[i] \in Record
  BY Zenon, LenProperties, ElementOfSeq DEF TrailInv, TrailTypeOK
<1>2. trail' = Backfilled(trail) /\ ledger' = ledger /\ ready'
  BY Zenon DEF InitDb
<1>3. CASE ready
  <2>1. \A i \in 1 .. Len(trail) : trail[i].hash # NoHash
    BY Zenon, <1>3 DEF TrailInv
  <2>2. trail' = [i \in 1 .. Len(trail) |-> trail[i]]
    BY Zenon, <1>2, <2>1 DEF Backfilled
  <2>3. trail' \in [1 .. Len(trail) -> Record] /\ \A i \in 1 .. Len(trail) : trail'[i] = trail[i]
    BY Zenon, <1>1, <2>2
  <2>4. trail' \in Seq(Record) /\ Len(trail') = Len(trail)
    BY <1>1, <2>3, SeqDef, LenProperties
  <2>5. trail' = trail
    BY Zenon, <1>1, <2>3, <2>4, SeqEqual
  <2> QED
    BY Zenon, <1>2, <1>3, <2>5 DEF TrailInv, TrailTypeOK
<1>4. CASE ~ ready
  <2>1. Len(trail) = Len(ledger)
    BY Zenon, <1>4 DEF TrailInv
  <2>2. \A i \in 1 .. Len(trail) : trail[i].entry = ledger[i] /\ trail[i].hash = NoHash
    BY Zenon, <1>4 DEF TrailInv
  <2>3. Contents(trail) = ledger
    <3>1. /\ Contents(trail) \in Seq(Entry) /\ Len(Contents(trail)) = Len(trail)
          /\ \A i \in 1 .. Len(trail) : Contents(trail)[i] = trail[i].entry
      BY Zenon, <1>1, ContentsOf
    <3>2. \A i \in 1 .. Len(Contents(trail)) : Contents(trail)[i] = ledger[i]
      BY Zenon, <2>2, <3>1
    <3> QED
      BY Zenon, <1>1, <2>1, <3>1, <3>2, SeqEqual
  <2>4. \A i \in 0 .. Len(trail) : ChainHash(trail, i) = SubSeq(ledger, 1, i)
    <3> SUFFICES ASSUME NEW i \in 0 .. Len(trail)
                 PROVE  ChainHash(trail, i) = SubSeq(ledger, 1, i)
      OBVIOUS
    <3>1. HashedUpTo(trail, i) = {}
      BY <1>1, <2>2 DEF HashedUpTo
    <3> QED
      BY Zenon, <2>3, <3>1 DEF ChainHash
  <2>5. \A i \in 0 .. Len(trail) : SubSeq(ledger, 1, i) \in Seq(Entry)
    <3> SUFFICES ASSUME NEW i \in 0 .. Len(trail)
                 PROVE  SubSeq(ledger, 1, i) \in Seq(Entry)
      OBVIOUS
    <3>1. \A k \in 1 .. i : ledger[k] \in Entry
      BY <1>1, <2>1, ElementOfSeq
    <3> QED
      BY <3>1, SubSeqProperties
  <2> DEFINE upTo(i) == SubSeq(ledger, 1, i)
  <2>a. \A i \in 0 .. Len(trail) : ChainHash(trail, i) = upTo(i) /\ upTo(i) \in Seq(Entry)
    BY Zenon, <2>4, <2>5
  <2> HIDE DEF upTo
  <2>b. \A i \in 1 .. Len(trail) :
          /\ ChainHash(trail, i) = upTo(i) /\ ChainHash(trail, i - 1) = upTo(i - 1)
          /\ upTo(i) \in Seq(Entry) /\ upTo(i - 1) \in Seq(Entry)
          /\ ledger[i] \in Entry
    BY <1>1, <2>1, <2>a, ElementOfSeq
  <2>6. trail' = [i \in 1 .. Len(trail) |->
                    [entry |-> ledger[i], prev |-> upTo(i - 1), hash |-> upTo(i)]]
    BY Zenon, <1>2, <2>2, <2>b DEF Backfilled
  <2>c. \A i \in 1 .. Len(trail) :
          trail'[i].hash = upTo(i) /\ trail'[i].prev = upTo(i - 1) /\ trail'[i].hash \in Seq(Entry)
    BY Zenon, <2>b, <2>6
  <2>8. trail' \in [1 .. Len(trail) -> Record]
    BY Zenon, <2>b, <2>6 DEF Record, Hash
  <2>7. \A i \in 1 .. Len(trail) :
          /\ trail'[i].hash = SubSeq(ledger, 1, i) /\ trail'[i].prev = SubSeq(ledger, 1, i - 1)
          /\ trail'[i].hash # NoHash
    BY Zenon, <2>c, TrailAssumption DEF upTo
  <2>9. trail' \in Seq(Record) /\ Len(trail') = Len(trail)
    BY <1>1, <2>8, SeqDef, LenProperties
  <2>10. trail' = << >> => ledger = << >>
    BY Zenon, <1>1, <2>1, <2>9, EmptySeq, LenProperties
  <2>11. trail' # << >> => trail'[Len(trail')].hash = ledger
    <3> HAVE trail' # << >>
    <3>1. Len(trail) \in 1 .. Len(trail)
      BY <1>1, <2>9, EmptySeq, LenProperties
    <3>2. SubSeq(ledger, 1, Len(ledger)) = ledger
      BY Zenon, <1>1, SubSeqFull
    <3> QED
      BY Zenon, <2>1, <2>7, <2>9, <3>1, <3>2
  <2> QED
    BY <1>1, <1>2, <2>1, <2>7, <2>9, <2>10, <2>11 DEF TrailInv, TrailTypeOK
<1> QED
  BY Zenon, <1>3, <1>4

\* A new record is chained to the newest one, whose hash covers the ledger.
LEMMA LogInv ==
  ASSUME TrailInv, NEW e \in Entry, Log(e)
  PROVE  TrailInv'
<1>1. /\ trail \in Seq(Record) /\ ledger \in Seq(Entry) /\ ready
      /\ Len(trail) \in Nat /\ Len(ledger) \in Nat
  BY Zenon, LenProperties DEF TrailInv, TrailTypeOK, Log
<1>2. HeadHash(trail) = ledger
  <2>1. CASE trail = << >>
    BY Zenon, <1>1, <2>1 DEF HeadHash, GENESIS, TrailInv
  <2>2. CASE trail # << >>
    <3>1. Len(trail) \in 1 .. Len(trail)
      BY <1>1, <2>2, EmptySeq, LenProperties
    <3>2. Newest(trail).hash = ledger /\ Newest(trail).hash # NoHash
      BY Zenon, <1>1, <2>2, <3>1 DEF TrailInv, Newest
    <3> QED
      BY Zenon, <2>2, <3>2 DEF HeadHash
  <2> QED
    BY Zenon, <2>1, <2>2
<1> DEFINE r == [entry |-> e, prev |-> ledger, hash |-> Append(ledger, e)]
<1>3. /\ ledger' = Append(ledger, e) /\ ledger' \in Seq(Entry) /\ Len(ledger') = Len(ledger) + 1
  BY Zenon, <1>1, AppendProperties DEF Log
<1>4. r \in Record /\ r.hash = ledger' /\ r.prev = ledger
  BY Zenon, <1>1, <1>3 DEF Record, Hash
<1>5. trail' = Append(trail, r) /\ ready'
  BY Zenon, <1>1, <1>2 DEF Log, Appended, Digest
<1> HIDE DEF r
<1>6. /\ trail' \in Seq(Record) /\ Len(trail') = Len(trail) + 1 /\ trail' # << >>
      /\ \A i \in 1 .. Len(trail) : trail'[i] = trail[i]
      /\ trail'[Len(trail) + 1] = r
  BY <1>1, <1>4, <1>5, AppendProperties
<1>7. ledger' # NoHash
  BY Zenon, <1>3, TrailAssumption
<1>8. \A i \in 1 .. Len(trail') : trail'[i].hash # NoHash
  <2> SUFFICES ASSUME NEW i \in 1 .. Len(trail')
               PROVE  trail'[i].hash # NoHash
    OBVIOUS
  <2>1. CASE i = Len(trail) + 1
    BY Zenon, <1>4, <1>6, <1>7, <2>1
  <2>2. CASE i \in 1 .. Len(trail)
    BY Zenon, <1>1, <1>6, <2>2 DEF TrailInv
  <2> QED
    BY <1>1, <1>6, <2>1, <2>2
<1>9. Len(trail) <= Len(ledger)
  BY Zenon, <1>1 DEF TrailInv
<1>10. ASSUME Len(trail') = Len(ledger')
       PROVE  \A i \in 1 .. Len(trail') :
                trail'[i].hash = SubSeq(ledger', 1, i) /\ trail'[i].prev = SubSeq(ledger', 1, i - 1)
  <2>1. Len(trail) = Len(ledger)
    BY <1>1, <1>3, <1>6, <1>10
  <2>2. \A i \in 0 .. Len(ledger) : SubSeq(ledger', 1, i) = SubSeq(ledger, 1, i)
    BY <1>1, <1>3, PrefixOf
  <2> SUFFICES ASSUME NEW i \in 1 .. Len(trail')
               PROVE  trail'[i].hash = SubSeq(ledger', 1, i) /\ trail'[i].prev = SubSeq(ledger', 1, i - 1)
    OBVIOUS
  <2>3. i - 1 \in 0 .. Len(ledger) /\ SubSeq(ledger', 1, i - 1) = SubSeq(ledger, 1, i - 1)
    BY <1>1, <1>6, <2>1, <2>2
  <2>4. CASE i = Len(trail) + 1
    <3>1. SubSeq(ledger', 1, Len(ledger')) = ledger' /\ SubSeq(ledger, 1, Len(ledger)) = ledger
      BY Zenon, <1>1, <1>3, SubSeqFull
    <3>2. i = Len(ledger') /\ i - 1 = Len(ledger)
      BY <1>1, <1>3, <2>1, <2>4
    <3> QED
      BY Zenon, <1>4, <1>6, <2>3, <2>4, <3>1, <3>2
  <2>5. CASE i \in 1 .. Len(trail)
    <3>1. i \in 0 .. Len(ledger) /\ trail'[i] = trail[i]
      BY <1>1, <1>6, <2>1, <2>5
    <3>2. trail[i].hash = SubSeq(ledger, 1, i) /\ trail[i].prev = SubSeq(ledger, 1, i - 1)
      BY Zenon, <1>1, <2>1, <2>5 DEF TrailInv
    <3> QED
      BY Zenon, <2>2, <2>3, <3>1, <3>2
  <2> QED
    BY <1>1, <1>6, <2>4, <2>5
<1>11. TrailTypeOK'
  BY Zenon, <1>3, <1>5, <1>6 DEF TrailTypeOK
<1>12. Len(trail') <= Len(ledger') /\ trail'[Len(trail')].hash = ledger'
  BY <1>1, <1>3, <1>4, <1>6, <1>9
<1> QED
  BY Zenon, <1>5, <1>6, <1>8, <1>10, <1>11, <1>12 DEF TrailInv

\* What a deletion leaves: the records before it, and those after it one place up.
LEMMA WithoutOf ==
  ASSUME NEW S, NEW s \in Seq(S), NEW i \in 1 .. Len(s)
  PROVE  /\ Without(s, i) \in Seq(S)
         /\ Len(Without(s, i)) = Len(s) - 1
         /\ \A k \in 1 .. Len(s) - 1 : Without(s, i)[k] = IF k < i THEN s[k] ELSE s[k + 1]
<1>1. Len(s) \in Nat /\ \A k \in 1 .. Len(s) : s[k] \in S
  BY Zenon, LenProperties, ElementOfSeq
<1> DEFINE a == SubSeq(s, 1, i - 1)
           b == SubSeq(s, i + 1, Len(s))
<1>2. i - 1 \in Int /\ i + 1 \in Int /\ Len(s) \in Int /\ 1 \in Int
  BY <1>1
<1>3. /\ a \in Seq(S) /\ Len(a) = i - 1
      /\ \A k \in 1 .. i - 1 : a[k] = s[k]
  <2>1. \A k \in 1 .. i - 1 : s[k] \in S
    BY <1>1
  <2>2. /\ a \in Seq(S) /\ Len(a) = IF 1 <= i - 1 THEN i - 1 - 1 + 1 ELSE 0
        /\ \A k \in 1 .. i - 1 - 1 + 1 : a[k] = s[1 + k - 1]
    BY <1>2, <2>1, SubSeqProperties
  <2> HIDE DEF a
  <2> QED
    BY <1>1, <2>2
<1>4. /\ b \in Seq(S) /\ Len(b) = Len(s) - i
      /\ \A k \in 1 .. Len(s) - i : b[k] = s[k + i]
  <2>1. \A k \in i + 1 .. Len(s) : s[k] \in S
    BY <1>1
  <2>2. /\ b \in Seq(S) /\ Len(b) = IF i + 1 <= Len(s) THEN Len(s) - (i + 1) + 1 ELSE 0
        /\ \A k \in 1 .. Len(s) - (i + 1) + 1 : b[k] = s[(i + 1) + k - 1]
    BY <1>2, <2>1, SubSeqProperties
  <2> HIDE DEF b
  <2>3. \A k \in 1 .. Len(s) - i : (i + 1) + k - 1 = k + i /\ k \in 1 .. Len(s) - (i + 1) + 1
    BY <1>1
  <2> QED
    BY <1>1, <2>2, <2>3
<1>5. Without(s, i) = a \o b
  BY Zenon DEF Without
<1> HIDE DEF a, b
<1>6. /\ a \o b \in Seq(S) /\ Len(a \o b) = Len(a) + Len(b)
      /\ \A k \in 1 .. Len(a) + Len(b) : (a \o b)[k] = IF k <= Len(a) THEN a[k] ELSE b[k - Len(a)]
  BY Zenon, <1>3, <1>4, ConcatProperties
<1>7. \A k \in 1 .. Len(s) - 1 : (a \o b)[k] = IF k < i THEN s[k] ELSE s[k + 1]
  <2> SUFFICES ASSUME NEW k \in 1 .. Len(s) - 1
               PROVE  (a \o b)[k] = IF k < i THEN s[k] ELSE s[k + 1]
    BY Zenon
  <2>1. k \in 1 .. Len(a) + Len(b)
    BY <1>1, <1>3, <1>4
  <2>2. CASE k < i
    BY <1>1, <1>3, <1>6, <2>1, <2>2
  <2>3. CASE ~ (k < i)
    <3>1. k - Len(a) \in 1 .. Len(s) - i /\ k - Len(a) + i = k + 1 /\ ~ (k <= Len(a))
      BY <1>1, <1>3, <2>3
    <3> QED
      BY Zenon, <1>4, <1>6, <2>1, <2>3, <3>1
  <2> QED
    BY Zenon, <2>2, <2>3
<1> QED
  BY <1>1, <1>3, <1>4, <1>5, <1>6, <1>7

\* An edit keeps the hashes, a deletion keeps the newest record and leaves fewer
\* records than were recorded.
LEMMA OutsideInv ==
  ASSUME TrailInv, Outside
  PROVE  TrailInv'
<1>1. PICK i \in 1 .. Len(trail) : DeleteMiddle(i) \/ \E e \in Forged : Edit(i, e)
  BY Zenon DEF Outside
<1>2. /\ trail \in Seq(Record) /\ ledger \in Seq(Entry) /\ ready
      /\ Len(trail) \in Nat /\ Len(ledger) \in Nat /\ Len(trail) <= Len(ledger)
      /\ \A k \in 1 .. Len(trail) : trail[k] \in Record /\ trail[k].hash # NoHash
      /\ UNCHANGED <<ledger, ready>>
  BY Zenon, <1>1, LenProperties, ElementOfSeq DEF TrailInv, TrailTypeOK, DeleteMiddle, Edit
<1>3. trail # << >> /\ trail[Len(trail)].hash = ledger
  BY <1>1, <1>2, EmptySeq DEF TrailInv
<1>4. CASE DeleteMiddle(i)
  <2>1. trail' = Without(trail, i) /\ i < Len(trail)
    BY Zenon, <1>4 DEF DeleteMiddle
  <2>2. /\ trail' \in Seq(Record) /\ Len(trail') = Len(trail) - 1
        /\ \A k \in 1 .. Len(trail) - 1 : trail'[k] = IF k < i THEN trail[k] ELSE trail[k + 1]
    BY Zenon, <1>2, <2>1, WithoutOf
  <2>3. \A k \in 1 .. Len(trail') : trail'[k].hash # NoHash
    BY <1>2, <2>2
  <2>4. Len(trail') \in 1 .. Len(trail) - 1 /\ ~ (Len(trail') < i) /\ Len(trail') + 1 = Len(trail)
    BY <1>2, <2>1, <2>2
  <2>5. trail'[Len(trail')].hash = ledger
    BY Zenon, <1>3, <2>2, <2>4
  <2>6. trail' # << >>
    BY <2>2, <2>4, EmptySeq
  <2>7. Len(trail') <= Len(ledger) /\ Len(trail') # Len(ledger)
    BY <1>2, <2>2
  <2> QED
    BY Zenon, <1>2, <2>2, <2>3, <2>5, <2>6, <2>7 DEF TrailInv, TrailTypeOK
<1>5. CASE \E e \in Forged : Edit(i, e)
  <2>1. PICK e \in Forged : Edit(i, e)
    BY Zenon, <1>5
  <2>2. e \in Entry
    BY Zenon, TrailAssumption
  <2> DEFINE r == [trail[i] EXCEPT !.entry = e]
  <2>3. r \in Record /\ r.hash = trail[i].hash /\ r.prev = trail[i].prev
    BY Zenon, <1>2, <2>2 DEF Record
  <2>4. trail' = [trail EXCEPT ![i] = r]
    BY Zenon, <2>1 DEF Edit
  <2> HIDE DEF r
  <2>5. trail' \in Seq(Record) /\ Len(trail') = Len(trail)
    BY <1>2, <2>3, <2>4, ExceptSeq
  <2>6. \A k \in 1 .. Len(trail) : trail'[k].hash = trail[k].hash /\ trail'[k].prev = trail[k].prev
    <3>1. trail \in [1 .. Len(trail) -> Record]
      BY Zenon, <1>2, LenProperties, ElementOfSeq
    <3> QED
      BY Zenon, <2>3, <2>4, <3>1
  <2>7. trail' # << >> /\ Len(trail) \in 1 .. Len(trail)
    BY <1>2, <1>3, <2>5, EmptySeq, LenProperties
  <2>8. trail'[Len(trail')].hash = ledger /\ \A k \in 1 .. Len(trail') : trail'[k].hash # NoHash
    BY Zenon, <1>2, <1>3, <2>5, <2>6, <2>7
  <2>9. Len(trail') = Len(ledger) =>
          \A k \in 1 .. Len(trail') :
            trail'[k].hash = SubSeq(ledger, 1, k) /\ trail'[k].prev = SubSeq(ledger, 1, k - 1)
    BY Zenon, <1>2, <2>5, <2>6 DEF TrailInv
  <2> QED
    BY Zenon, <1>2, <2>5, <2>7, <2>8, <2>9 DEF TrailInv, TrailTypeOK
<1> QED
  BY Zenon, <1>1, <1>4, <1>5

\* Steps that leave the trail alone.
LEMMA TrailFrame ==
  ASSUME TrailInv, UNCHANGED trailVars
  PROVE  TrailInv'
BY Zenon DEF TrailInv, TrailTypeOK, trailVars

\* For writers of any kind: verify_chain detects exactly the edited and deleted
\* records, whatever was recorded, backfilled and changed.
THEOREM TrailTellsTampering == TrailSpec => []ChainTellsTampering
<1>1. TrailInit => TrailInv
  BY Zenon, TrailStarts
<1>2. TrailInv /\ [TrailNext]_trailVars => TrailInv'
  BY Zenon, InitDbInv, LogInv, OutsideInv, TrailFrame DEF TrailNext
<1>3. TrailInv => ChainTellsTampering
  BY Zenon, TrailInvTells
<1> QED
  BY <1>1, <1>2, <1>3, PTL DEF TrailSpec

-----------------------------------------------------------------------------
(* The executor. *)

\* An executor is at a step of its procedure, and so is what a call is going to enter.
StepsAreKnown ==
  /\ \A e \in Executor : ex[e].current # None => ex[e].current \in DOMAIN Parsed[ex[e].file].steps
  /\ EntersKnownStep

\* A call holds its executor; it has a record to write once it left the exit hooks, and a
\* step to enter unless it completes or escalates.
Shaped(y) ==
  /\ y.at = "idle" => y = Idle
  /\ y.at # "idle" => y.e \in Executor
  /\ y.at = "exit" => y.entry = NoEntry
  /\ y.at \in {"log", "enter"} => y.entry \in ExecutorEntry
  /\ y.at \in {"exit", "enter"} \/ y.entry.act \in {"started", "moved"} => y.to # None
CallsAreShaped == \A c \in Caller : Shaped(call[c])

\* A call on executor e is going to enter a step, and to show what was done so far.
Entering(e) == \E c \in InFlight : call[c].e = e /\ call[c].to # None

\* The session agrees with the executor that wrote it last, up to what the calls in
\* flight on that executor are still going to show.
SessionAgrees ==
  writer # None /\ writer = registry =>
    /\ session.status = ex[writer].status
    /\ session.step = ex[writer].current \/ Starting(writer)
    /\ session.status = "in_progress" => session.done = ex[writer].done \/ Entering(writer)

\* Unless calls raced, at most one is in flight, on the session's executor.
OneCall ==
  registry # None /\ ~ raced =>
    \A c \in InFlight :
      /\ call[c].e = registry
      /\ \A d \in InFlight : d = c

\* The record a call is going to write, or wrote, tells where its executor will be.
Foretells(y, x) ==
  \/ y.at = "exit" /\ x.status \in {"in_progress", "escalated"}
  \/ y.entry.act = "started" /\ x.status = "in_progress" /\ y.to = Parsed[x.file].first
  \/ y.entry.act = "moved" /\ x.status \in {"in_progress", "escalated"} /\ y.entry.step = y.to
  \/ y.entry.act = "completed" /\ x.status = "completed" /\ x.current = None /\ y.to = None
  \/ y.entry.act = "escalated" /\ x.status = "escalated" /\ y.entry.from = x.current /\ y.to = None

\* After the records in l, the last one explains x when no call is in flight.
Explained(x, l) == x.status = "not_started" \/ (l # << >> /\ Explains(Newest(l), x))
Recorded(y, x, l) == Foretells(y, x) /\ (y.at = "enter" => l # << >> /\ Newest(l) = y.entry)

\* Unless calls raced or a record was lost, the newest record explains the executor, or
\* will once the call in flight returned.
RecordsExplain ==
  registry # None /\ ~ raced /\ ~ unlogged =>
    /\ ex[registry].status = "not_started" => ex[registry].current = None
    /\ InFlight = {} => Explained(ex[registry], ledger)
    /\ \A c \in InFlight : Recorded(call[c], ex[registry], ledger)

ExecutorInv ==
  /\ TrailInv /\ TypeOK /\ StepsAreKnown /\ CallsAreShaped
  /\ SessionAgrees /\ OneCall /\ RecordsExplain

\* What the assumption says of None and of the procedures that load: their steps refer
\* to steps or to "end", which is what validate_procedure is for.
LEMMA LoadedProcedures ==
  /\ None \notin Executor /\ None \notin StepId
  /\ \A file \in Loaded :
       /\ DOMAIN Parsed[file].steps \subseteq StepId
       /\ Parsed[file].first \in DOMAIN Parsed[file].steps
       /\ \A s \in DOMAIN Parsed[file].steps :
            ValidTransitions(file, s) \subseteq DOMAIN Parsed[file].steps \cup {"end"}
<1>1. None \notin Executor /\ None \notin StepId
  BY Zenon, ExecutorAssumption DEF Target
<1>2. ASSUME NEW file \in Loaded
      PROVE  /\ DOMAIN Parsed[file].steps \subseteq StepId
             /\ Parsed[file].first \in DOMAIN Parsed[file].steps
             /\ \A s \in DOMAIN Parsed[file].steps :
                  ValidTransitions(file, s) \subseteq DOMAIN Parsed[file].steps \cup {"end"}
  <2>1. DOMAIN Parsed[file].steps \subseteq StepId /\ Parsed[file].first \in DOMAIN Parsed[file].steps
    BY Zenon, ExecutorAssumption
  <2>2. validate_procedure(file)
    BY Zenon DEF Loaded
  <2> QED
    BY Zenon, <2>1, <2>2 DEF validate_procedure, ValidTransitions
<1> QED
  BY Zenon, <1>1, <1>2

\* The fields of an executor, of a call and of the session.
LEMMA Fields ==
  ASSUME TypeOK
  PROVE  /\ \A e \in Executor :
              /\ ex[e] \in ExecutorState /\ ex[e].file \in Loaded /\ ex[e].status \in Status
              /\ ex[e].current \in StepId \cup {None} /\ ex[e].done \in SUBSET StepId
         /\ \A c \in Caller :
              /\ call[c] \in Call /\ call[c].at \in {"idle", "exit", "log", "enter"}
              /\ call[c].e \in Executor \cup {None} /\ call[c].to \in Target \cup {None}
              /\ call[c].entry \in ExecutorEntry \cup {NoEntry}
         /\ session.status \in Status /\ session.step \in StepId \cup {None}
         /\ session.done \in SUBSET StepId
BY Zenon DEF TypeOK, ExecutorState, Call, SessionState

\* One caller's step on one executor: what its call y and its executor x become decides
\* whether the invariant is kept.  Other calls wait unless calls raced.
LEMMA ProgressInv ==
  ASSUME ExecutorInv, TrailInv', SessionAgrees',
         NEW c \in Caller, NEW y \in Call, NEW e \in Executor, NEW x \in ExecutorState,
         call' = [call EXCEPT ![c] = y], ex' = [ex EXCEPT ![e] = x], registry' = registry,
         session' \in SessionState, calls' \in 0 .. MaxCalls, writer' \in Executor \cup {None},
         raced' \in BOOLEAN, unlogged' \in BOOLEAN,
         x.file = ex[e].file, x.current # None => x.current \in DOMAIN Parsed[x.file].steps,
         Shaped(y),
         y.at # "idle" /\ y.to # None => y.to \in DOMAIN Parsed[ex[y.e].file].steps \cup {"end"},
         registry # None /\ ~ raced' =>
           /\ InFlight \subseteq {c} /\ registry = e
           /\ y.at # "idle" => y.e = registry
           /\ ~ unlogged' =>
                /\ x.status = "not_started" => x.current = None
                /\ y.at = "idle" => Explained(x, ledger')
                /\ y.at # "idle" => Recorded(y, x, ledger')
  PROVE  ExecutorInv'
<1>1. ex \in [Executor -> ExecutorState] /\ call \in [Caller -> Call]
      /\ registry \in Executor \cup {None}
  BY Zenon DEF ExecutorInv, TypeOK
<1>2. \A d \in Executor : ex'[d] = IF d = e THEN x ELSE ex[d]
  BY Zenon, <1>1
<1>3. \A d \in Caller : call'[d] = IF d = c THEN y ELSE call[d]
  BY Zenon, <1>1
<1>4. ex' \in [Executor -> ExecutorState] /\ call' \in [Caller -> Call]
  BY Zenon, <1>1
<1>5. TypeOK'
  BY Zenon, <1>1, <1>4 DEF TypeOK, TrailInv
<1>6. CallsAreShaped'
  BY Zenon, <1>3 DEF ExecutorInv, CallsAreShaped
<1>7. StepsAreKnown'
  <2>1. \A d \in Executor : ex'[d].file = ex[d].file
    BY Zenon, <1>2
  <2>2. \A d \in Executor : ex'[d].current # None => ex'[d].current \in DOMAIN Parsed[ex'[d].file].steps
    BY <1>2 DEF ExecutorInv, StepsAreKnown
  <2>3. ASSUME NEW d \in Caller, call'[d].at # "idle", call'[d].to # None
        PROVE  call'[d].to \in DOMAIN Parsed[ex'[call'[d].e].file].steps \cup {"end"}
    <3>1. call'[d].e \in Executor
      BY Zenon, <1>6, <2>3 DEF CallsAreShaped, Shaped
    <3>2. call'[d].to \in DOMAIN Parsed[ex[call'[d].e].file].steps \cup {"end"}
      <4>1. CASE d = c
        BY Zenon, <1>3, <2>3, <4>1
      <4>2. CASE d # c
        <5>1. call'[d] = call[d]
          BY Zenon, <1>3, <4>2
        <5>2. EntersKnownStep
          BY Zenon DEF ExecutorInv, StepsAreKnown
        <5> QED
          BY Zenon, <2>3, <5>1, <5>2 DEF EntersKnownStep
      <4> QED
        BY Zenon, <4>1, <4>2
    <3> QED
      BY Zenon, <2>1, <3>1, <3>2
  <2> QED
    BY Zenon, <2>2, <2>3 DEF StepsAreKnown, EntersKnownStep
<1>8. ASSUME registry # None, ~ raced'
      PROVE  /\ ex'[registry] = x
             /\ \A d \in Caller : call'[d].at # "idle" => d = c /\ y.at # "idle"
             /\ call'[c] = y
  BY <1>2, <1>3, <1>8 DEF InFlight
<1>9. OneCall'
  BY Zenon, <1>8 DEF OneCall, InFlight
<1>10. RecordsExplain'
  BY Zenon, <1>8 DEF RecordsExplain, InFlight
<1> QED
  BY Zenon, <1>5, <1>6, <1>7, <1>9, <1>10 DEF ExecutorInv

\* Once the call in flight is on the executor of the session and calls did not race, it
\* is the only one.
LEMMA OnlyCall ==
  ASSUME ExecutorInv, NEW c \in Caller, call[c].at # "idle", registry # None, ~ raced
  PROVE  /\ InFlight \subseteq {c} /\ registry = call[c].e
         /\ ~ unlogged => Recorded(call[c], ex[registry], ledger)
BY Zenon DEF ExecutorInv, OneCall, RecordsExplain, InFlight

\* A call that begins when none is in flight finds the executor as the last record says.
LEMMA FirstCall ==
  ASSUME ExecutorInv, NEW c \in Caller, call[c].at = "idle", registry # None,
         ~ (raced \/ InFlight # {})
  PROVE  /\ InFlight \subseteq {c}
         /\ ~ unlogged => /\ Explained(ex[registry], ledger)
                          /\ ex[registry].status = "not_started" => ex[registry].current = None
BY Zenon DEF ExecutorInv, RecordsExplain

\* What _update_session_state shows is the executor's, up to the step of a start.
LEMMA ShownAgrees ==
  ASSUME ex \in [Executor -> ExecutorState], NEW e \in Executor, NEW x, NEW step,
         ex' = [ex EXCEPT ![e] = x], Shown(e, x, step),
         \/ step = x.current
         \/ \E c \in Caller : /\ call'[c].at # "idle" /\ call'[c].e = e
                              /\ call'[c].entry.act = "started"
  PROVE  SessionAgrees'
<1>1. ex'[e] = x /\ writer' = e
  BY Zenon DEF Shown
<1>2. session'.status = x.status /\ session'.step = step /\ session'.done = x.done
  BY Zenon DEF Shown
<1> QED
  BY Zenon, <1>1, <1>2 DEF SessionAgrees, Starting, InFlight

\* A step that leaves the session and the executor's place alone keeps them agreeing, if
\* the call does not drop what it is going to show.
LEMMA SessionStays ==
  ASSUME ExecutorInv, NEW c \in Caller, NEW y \in Call, NEW e \in Executor, NEW x \in ExecutorState,
         call' = [call EXCEPT ![c] = y], ex' = [ex EXCEPT ![e] = x],
         UNCHANGED <<registry, session, writer>>,
         x.status = ex[e].status, x.current = ex[e].current,
         x.done = ex[e].done \/ (y.at # "idle" /\ y.e = e /\ y.to # None),
         call[c].at # "idle" /\ call[c].to # None =>
           /\ y.at # "idle" /\ y.e = call[c].e /\ y.to # None
           /\ call[c].entry.act = "started" => y.entry.act = "started"
  PROVE  SessionAgrees'
<1> SUFFICES ASSUME writer # None, writer = registry
             PROVE  /\ session.status = ex'[writer].status
                    /\ session.step = ex'[writer].current \/ Starting(writer)'
                    /\ session.status = "in_progress" =>
                         session.done = ex'[writer].done \/ Entering(writer)'
  BY Zenon DEF SessionAgrees, Starting, Entering
<1>1. /\ ex \in [Executor -> ExecutorState] /\ call \in [Caller -> Call] /\ writer \in Executor
  BY Zenon DEF ExecutorInv, TypeOK
<1>2. /\ ex'[writer].status = ex[writer].status /\ ex'[writer].current = ex[writer].current
      /\ ex'[writer].done = ex[writer].done \/ (writer = e /\ ex'[writer].done = x.done)
  BY Zenon, <1>1
<1>3. call'[c] = y /\ \A d \in Caller : d # c => call'[d] = call[d]
  BY Zenon, <1>1
<1>4. /\ session.status = ex[writer].status
      /\ session.step = ex[writer].current \/ Starting(writer)
      /\ session.status = "in_progress" => session.done = ex[writer].done \/ Entering(writer)
  BY Zenon DEF ExecutorInv, SessionAgrees
<1>5. Starting(writer) => Starting(writer)'
  <2>1. \A d \in Caller : call[d].at # "idle" /\ call[d].entry.act = "started" => call[d].to # None
    BY Zenon DEF ExecutorInv, CallsAreShaped, Shaped
  <2> QED
    BY <1>3, <2>1 DEF Starting, InFlight
<1>6. Entering(writer) => Entering(writer)'
  BY <1>3 DEF Entering, InFlight
<1>7. y.at # "idle" /\ y.e = writer /\ y.to # None => Entering(writer)'
  BY <1>3 DEF Entering, InFlight
<1> QED
  BY Zenon, <1>2, <1>4, <1>5, <1>6, <1>7

-----------------------------------------------------------------------------
(* Every step keeps the invariant. *)

\* start: the record and the first step are ahead.
LEMMA StartInv ==
  ASSUME ExecutorInv, NEW c \in Caller, Start(c)
  PROVE  ExecutorInv'
<1> DEFINE first == Parsed[ex[registry].file].first
           x == [ex[registry] EXCEPT !.status = "in_progress"]
           y == [at |-> "log", e |-> registry, to |-> first, entry |-> Entered("started", first, None)]
<1>1. /\ TypeOK /\ TrailInv /\ registry \in Executor /\ registry # None
      /\ ex \in [Executor -> ExecutorState] /\ call \in [Caller -> Call]
  BY Zenon DEF ExecutorInv, TypeOK, Start
<1>2. /\ ex[registry] \in ExecutorState /\ ex[registry].file \in Loaded
      /\ ex[registry].status # "in_progress"
  BY Zenon, <1>1, Fields DEF Start
<1>3. first \in DOMAIN Parsed[ex[registry].file].steps /\ first \in StepId /\ first # None
  BY Zenon, <1>2, LoadedProcedures
<1>4. /\ x \in ExecutorState /\ x.file = ex[registry].file /\ x.status = "in_progress"
      /\ x.current = ex[registry].current /\ x.done = ex[registry].done
  BY Zenon, <1>2 DEF ExecutorState, Status
<1>5. /\ y.at = "log" /\ y.e = registry /\ y.to = first /\ y.entry.act = "started"
      /\ y.entry \in ExecutorEntry
  BY Zenon, <1>3 DEF Entered, ExecutorEntry, Target
<1>6. y \in Call
  BY Zenon, <1>1, <1>3, <1>5 DEF Call, Target
<1>7. /\ ex' = [ex EXCEPT ![registry] = x] /\ call' = [call EXCEPT ![c] = y]
      /\ Shown(registry, x, first)
      /\ calls' = calls + 1 /\ calls < MaxCalls /\ raced' = (raced \/ InFlight # {})
      /\ call[c].at = "idle" /\ UNCHANGED <<trailVars, registry, unlogged>>
  BY Zenon, <1>4 DEF Start, Begins, Counted
<1> HIDE DEF x, y
<1>8. TrailInv'
  BY Zenon, <1>1, <1>7, TrailFrame
<1>9. SessionAgrees'
  <2>1. call'[c] = y
    BY Zenon, <1>1, <1>7
  <2> QED
    BY Zenon, <1>1, <1>5, <1>7, <2>1, ShownAgrees
<1>10. /\ session' \in SessionState /\ writer' \in Executor \cup {None} /\ calls' \in 0 .. MaxCalls
       /\ raced' \in BOOLEAN /\ unlogged' \in BOOLEAN /\ registry' = registry
  <2>1. session' \in SessionState
    BY Zenon, <1>3, <1>4, <1>7 DEF Shown, SessionState, ExecutorState
  <2>2. writer' \in Executor \cup {None}
    BY Zenon, <1>1, <1>7 DEF Shown
  <2>3. calls' \in 0 .. MaxCalls
    BY <1>1, <1>7, ExecutorAssumption DEF TypeOK
  <2> QED
    BY Zenon, <1>1, <1>7, <2>1, <2>2, <2>3 DEF TypeOK
<1>11. Shaped(y)
  BY Zenon, <1>1, <1>3, <1>5 DEF Shaped
<1>12. x.current # None => x.current \in DOMAIN Parsed[x.file].steps
  BY Zenon, <1>1, <1>4 DEF ExecutorInv, StepsAreKnown
<1>13. Foretells(y, x)
  BY Zenon, <1>4, <1>5 DEF Foretells
<1>14. registry # None /\ ~ raced' =>
         /\ InFlight \subseteq {c}
         /\ y.at # "idle" => y.e = registry
         /\ ~ unlogged' =>
              /\ x.status = "not_started" => x.current = None
              /\ y.at = "idle" => Explained(x, ledger')
              /\ y.at # "idle" => Recorded(y, x, ledger')
  BY Zenon, <1>4, <1>5, <1>7, <1>13 DEF Recorded
<1> HIDE DEF first
<1> QED
  BY Zenon, <1>1, <1>3, <1>4, <1>5, <1>6, <1>7, <1>8, <1>9, <1>10, <1>11, <1>12, <1>14, ProgressInv

\* enter_step: the executor e is at the step, and the session shows it.
LEMMA EnterIs ==
  ASSUME ExecutorInv, NEW e \in Executor, NEW step \in DOMAIN Parsed[ex[e].file].steps,
         Enter(e, step)
  PROVE  /\ SessionAgrees' /\ session' \in SessionState /\ writer' \in Executor \cup {None}
         /\ \E x \in ExecutorState :
              /\ ex' = [ex EXCEPT ![e] = x]
              /\ x.file = ex[e].file /\ x.status = ex[e].status /\ x.current = step
<1> DEFINE x == [ex[e] EXCEPT !.current = step, !.done = @ \ {step}]
<1>1. /\ TypeOK /\ ex \in [Executor -> ExecutorState] /\ ex[e] \in ExecutorState
      /\ ex[e].file \in Loaded /\ ex[e].done \in SUBSET StepId
  BY Zenon, Fields DEF ExecutorInv, TypeOK
<1>2. step \in StepId
  BY Zenon, <1>1, LoadedProcedures
<1>3. /\ x \in ExecutorState /\ x.file = ex[e].file /\ x.status = ex[e].status
      /\ x.current = step
  BY Zenon, <1>1, <1>2 DEF ExecutorState
<1>4. ex' = [ex EXCEPT ![e] = x] /\ Shown(e, x, step)
  BY Zenon DEF Enter
<1> HIDE DEF x
<1>5. SessionAgrees'
  BY Zenon, <1>1, <1>3, <1>4, ShownAgrees
<1>6. session' \in SessionState /\ writer' \in Executor \cup {None}
  BY Zenon, <1>2, <1>3, <1>4 DEF Shown, SessionState, ExecutorState
<1> QED
  BY Zenon, <1>3, <1>4, <1>5, <1>6

\* enter_step called by the host.
LEMMA EnterStepInv ==
  ASSUME ExecutorInv, NEW c \in Caller, EnterStep(c)
  PROVE  ExecutorInv'
<1>1. /\ TypeOK /\ TrailInv /\ registry \in Executor /\ call \in [Caller -> Call]
      /\ call[c].at = "idle" /\ calls' = calls + 1 /\ calls < MaxCalls
      /\ raced' = (raced \/ InFlight # {}) /\ unlogged' = TRUE
      /\ UNCHANGED <<trailVars, registry, call>>
  BY Zenon DEF ExecutorInv, TypeOK, EnterStep, Counted
<1>2. PICK step \in DOMAIN Parsed[ex[registry].file].steps : Enter(registry, step)
  BY Zenon DEF EnterStep
<1>3. SessionAgrees' /\ session' \in SessionState /\ writer' \in Executor \cup {None}
  BY Zenon, <1>1, <1>2, EnterIs
<1>4. PICK x \in ExecutorState :
        /\ ex' = [ex EXCEPT ![registry] = x]
        /\ x.file = ex[registry].file /\ x.status = ex[registry].status /\ x.current = step
  BY Zenon, <1>1, <1>2, EnterIs
<1>5. call[c] \in Call /\ call' = [call EXCEPT ![c] = call[c]]
  BY Zenon, <1>1
<1>6. Shaped(call[c])
  BY Zenon DEF ExecutorInv, CallsAreShaped
<1>7. calls' \in 0 .. MaxCalls /\ raced' \in BOOLEAN /\ unlogged' \in BOOLEAN
  BY <1>1, ExecutorAssumption DEF TypeOK
<1>8. TrailInv'
  BY Zenon, <1>1, TrailFrame
<1>9. registry # None /\ ~ raced' => InFlight \subseteq {c}
  BY Zenon, <1>1
<1> QED
  BY Zenon, <1>1, <1>2, <1>3, <1>4, <1>5, <1>6, <1>7, <1>8, <1>9, ProgressInv

\* What a call that begins finds.
LEMMA BeginsIs ==
  ASSUME ExecutorInv, NEW c \in Caller, NEW at, NEW to, NEW entry, Begins(c, at, to, entry)
  PROVE  /\ registry \in Executor /\ registry # None /\ call[c].at = "idle"
         /\ call' = [call EXCEPT ![c] = [at |-> at, e |-> registry, to |-> to, entry |-> entry]]
         /\ raced' = (raced \/ InFlight # {}) /\ raced' \in BOOLEAN /\ calls' \in 0 .. MaxCalls
<1>1. /\ registry # None /\ registry \in Executor /\ call[c].at = "idle" /\ raced \in BOOLEAN
      /\ calls \in 0 .. MaxCalls /\ calls < MaxCalls /\ calls' = calls + 1
      /\ call' = [call EXCEPT ![c] = [at |-> at, e |-> registry, to |-> to, entry |-> entry]]
      /\ raced' = (raced \/ InFlight # {})
  BY Zenon DEF ExecutorInv, TypeOK, Begins, Counted
<1>2. calls' \in 0 .. MaxCalls
  BY <1>1, ExecutorAssumption
<1> QED
  BY Zenon, <1>1, <1>2

\* transition, up to the exit hooks: the target is an edge away and will be recorded.
LEMMA TransitionInv ==
  ASSUME ExecutorInv, NEW c \in Caller, Transition(c)
  PROVE  ExecutorInv'
<1> DEFINE cur == ex[registry].current
<1>1. PICK to \in ValidTransitions(ex[registry].file, cur) : Begins(c, "exit", to, NoEntry)
  BY Zenon DEF Transition
<1> DEFINE y == [at |-> "exit", e |-> registry, to |-> to, entry |-> NoEntry]
           x == [ex[registry] EXCEPT !.done = @ \cup {cur}]
<1>2. /\ registry \in Executor /\ registry # None /\ call[c].at = "idle"
      /\ call' = [call EXCEPT ![c] = y]
      /\ raced' = (raced \/ InFlight # {}) /\ raced' \in BOOLEAN /\ calls' \in 0 .. MaxCalls
  BY Zenon, <1>1, BeginsIs
<1>3. /\ TypeOK /\ TrailInv /\ ex[registry] \in ExecutorState /\ ex[registry].file \in Loaded
      /\ cur \in StepId /\ cur # None
      /\ UNCHANGED <<trailVars, registry, session, writer, unlogged>>
  BY Zenon, <1>2, Fields DEF ExecutorInv, Transition
<1>4. cur \in DOMAIN Parsed[ex[registry].file].steps
  BY Zenon, <1>2, <1>3 DEF ExecutorInv, StepsAreKnown
<1>5. to \in DOMAIN Parsed[ex[registry].file].steps \cup {"end"} /\ to \in Target /\ to # None
  <2>1. to \in DOMAIN Parsed[ex[registry].file].steps \cup {"end"}
    BY Zenon, <1>3, <1>4, LoadedProcedures
  <2>2. to \in Target
    BY Zenon, <1>3, <2>1, LoadedProcedures DEF Target
  <2> QED
    BY Zenon, <2>1, <2>2, ExecutorAssumption
<1>6. /\ y.at = "exit" /\ y.e = registry /\ y.to = to /\ y.entry = NoEntry /\ y \in Call
  BY Zenon, <1>2, <1>5 DEF Call
<1>7. /\ x \in ExecutorState /\ x.file = ex[registry].file /\ x.status = ex[registry].status
      /\ x.current = cur /\ ex' = [ex EXCEPT ![registry] = x]
  <2>1. ex' = [ex EXCEPT ![registry] = x]
    BY Zenon DEF Transition
  <2> QED
    BY Zenon, <1>3, <2>1 DEF ExecutorState
<1> HIDE DEF x, y
<1>8. TrailInv'
  BY Zenon, <1>3, TrailFrame
<1>9. SessionAgrees'
  <2>1. UNCHANGED <<registry, session, writer>>
    BY Zenon, <1>3
  <2>2. x.status = ex[registry].status /\ x.current = ex[registry].current
    BY Zenon, <1>7
  <2>3. x.done = ex[registry].done \/ (y.at # "idle" /\ y.e = registry /\ y.to # None)
    BY Zenon, <1>5, <1>6
  <2> QED
    BY Zenon, <1>2, <1>6, <1>7, <2>1, <2>2, <2>3, SessionStays
<1>10. session' \in SessionState /\ writer' \in Executor \cup {None} /\ unlogged' \in BOOLEAN
  BY Zenon, <1>3 DEF TypeOK
<1>11. Shaped(y)
  BY Zenon, <1>2, <1>5, <1>6 DEF Shaped
<1>12. registry # None /\ ~ raced' =>
         /\ InFlight \subseteq {c}
         /\ ~ unlogged' => /\ x.status = "not_started" => x.current = None
                           /\ Recorded(y, x, ledger')
  <2> SUFFICES ASSUME ~ raced'
               PROVE  /\ InFlight \subseteq {c}
                      /\ ~ unlogged' => /\ x.status = "not_started" => x.current = None
                                        /\ Recorded(y, x, ledger')
    OBVIOUS
  <2>1. /\ InFlight \subseteq {c}
        /\ ~ unlogged => /\ Explained(ex[registry], ledger)
                         /\ ex[registry].status = "not_started" => cur = None
    BY Zenon, <1>2, FirstCall
  <2>2. ~ unlogged => x.status \in {"in_progress", "escalated"}
    BY Zenon, <1>3, <1>7, <2>1 DEF Explained, Explains
  <2> QED
    BY Zenon, <1>3, <1>6, <1>7, <2>1, <2>2 DEF Recorded, Foretells
<1> HIDE DEF cur
<1> QED
  BY Zenon, <1>2, <1>3, <1>4, <1>5, <1>6, <1>7, <1>8, <1>9, <1>10, <1>11, <1>12, ProgressInv

\* What a call in flight holds.
LEMMA InFlightIs ==
  ASSUME ExecutorInv, NEW c \in Caller, call[c].at # "idle"
  PROVE  /\ call[c].e \in Executor /\ call[c].e # None
         /\ ex[call[c].e] \in ExecutorState /\ ex[call[c].e].file \in Loaded
         /\ ex[call[c].e].current \in StepId \cup {None}
         /\ ex[call[c].e].current # None =>
              ex[call[c].e].current \in DOMAIN Parsed[ex[call[c].e].file].steps
         /\ call[c].to # None => call[c].to \in DOMAIN Parsed[ex[call[c].e].file].steps \cup {"end"}
         /\ call[c].to \in Target \cup {None}
         /\ call[c] \in Call /\ call \in [Caller -> Call] /\ ex \in [Executor -> ExecutorState]
         /\ session \in SessionState /\ writer \in Executor \cup {None}
         /\ calls \in 0 .. MaxCalls /\ raced \in BOOLEAN /\ unlogged \in BOOLEAN
<1>1. TypeOK /\ CallsAreShaped /\ StepsAreKnown
  BY Zenon DEF ExecutorInv
<1>2. call[c].e \in Executor /\ call[c].e # None
  BY Zenon, <1>1, LoadedProcedures DEF CallsAreShaped, Shaped
<1>3. /\ call[c].to # None => call[c].to \in DOMAIN Parsed[ex[call[c].e].file].steps \cup {"end"}
      /\ ex[call[c].e].current # None =>
           ex[call[c].e].current \in DOMAIN Parsed[ex[call[c].e].file].steps
  BY Zenon, <1>1, <1>2 DEF StepsAreKnown, EntersKnownStep
<1> QED
  BY Zenon, <1>1, <1>2, <1>3, Fields DEF TypeOK

\* transition, after the exit hooks: the record names the step it leaves.
LEMMA AfterExitHooksInv ==
  ASSUME ExecutorInv, NEW c \in Caller, AfterExitHooks(c)
  PROVE  ExecutorInv'
<1> DEFINE e == call[c].e
           to == call[c].to
           entry == Entered("moved", to, ex[e].current)
           y == [call[c] EXCEPT !.at = "log", !.entry = entry]
<1>1. call[c].at = "exit" /\ UNCHANGED <<trailVars, registry, ex, session, calls, writer, raced, unlogged>>
  BY Zenon DEF AfterExitHooks
<1>2. /\ TrailInv /\ Shaped(call[c])
  BY Zenon DEF ExecutorInv, CallsAreShaped
<1>3. to # None /\ call[c].entry = NoEntry
  BY Zenon, <1>1, <1>2 DEF Shaped
<1>4. to \in Target
  BY Zenon, <1>1, <1>3, InFlightIs
<1>5. /\ entry \in ExecutorEntry /\ entry.act = "moved" /\ entry.step = to
  BY Zenon, <1>1, <1>4, InFlightIs DEF Entered, ExecutorEntry
<1> HIDE DEF entry
<1>6. /\ y \in Call /\ y.at = "log" /\ y.e = e /\ y.to = to /\ y.entry = entry
  BY Zenon, <1>1, <1>5, InFlightIs DEF Call
<1>7. call' = [call EXCEPT ![c] = y]
  BY Zenon DEF AfterExitHooks, entry
<1> HIDE DEF y
<1>8. e \in Executor /\ ex[e] \in ExecutorState /\ ex' = [ex EXCEPT ![e] = ex[e]]
  BY Zenon, <1>1, InFlightIs
<1>9. TrailInv'
  BY Zenon, <1>1, <1>2, TrailFrame
<1>10. SessionAgrees'
  <2>1. call[c].entry.act # "started"
    BY <1>3 DEF NoEntry
  <2>2. UNCHANGED <<registry, session, writer>>
    BY Zenon, <1>1
  <2> QED
    BY Zenon, <1>3, <1>6, <1>7, <1>8, <2>1, <2>2, SessionStays
<1>11. Shaped(y)
  BY Zenon, <1>3, <1>5, <1>6, <1>8 DEF Shaped
<1>12. registry # None /\ ~ raced' =>
         /\ InFlight \subseteq {c} /\ registry = e
         /\ ~ unlogged' => /\ ex[e].status = "not_started" => ex[e].current = None
                           /\ Recorded(y, ex[e], ledger')
  <2> SUFFICES ASSUME registry # None, ~ raced
               PROVE  /\ InFlight \subseteq {c} /\ registry = e
                      /\ ~ unlogged => /\ ex[e].status = "not_started" => ex[e].current = None
                                       /\ Recorded(y, ex[e], ledger')
    BY Zenon, <1>1
  <2>1. /\ InFlight \subseteq {c} /\ registry = e
        /\ ~ unlogged => Recorded(call[c], ex[e], ledger)
    BY Zenon, <1>1, OnlyCall
  <2>2. ~ unlogged => ex[e].status \in {"in_progress", "escalated"}
    BY Zenon, <1>1, <1>3, <2>1 DEF Recorded, Foretells, NoEntry
  <2> QED
    BY Zenon, <1>5, <1>6, <2>1, <2>2 DEF Recorded, Foretells
<1>13. /\ session' \in SessionState /\ writer' \in Executor \cup {None} /\ calls' \in 0 .. MaxCalls
       /\ raced' \in BOOLEAN /\ unlogged' \in BOOLEAN
  BY Zenon, <1>1, InFlightIs
<1>14. /\ ex[e].current # None => ex[e].current \in DOMAIN Parsed[ex[e].file].steps
       /\ y.to \in DOMAIN Parsed[ex[y.e].file].steps \cup {"end"}
  BY Zenon, <1>1, <1>3, <1>6, InFlightIs
<1>15. y \in Call /\ y.at # "idle" /\ y.e = e /\ registry' = registry
  BY Zenon, <1>1, <1>6
<1> HIDE DEF e, to
<1> QED
  BY Zenon, <1>7, <1>8, <1>9, <1>10, <1>11, <1>12, <1>13, <1>14, <1>15, ProgressInv

\* The audit write: once it is in the trail, the record explains the executor, or will
\* when the call has entered its step.
LEMMA WriteRecordInv ==
  ASSUME ExecutorInv, NEW c \in Caller, WriteRecord(c)
  PROVE  ExecutorInv'
<1> DEFINE e == call[c].e
           to == call[c].to
           y == IF to = None THEN Idle ELSE [call[c] EXCEPT !.at = "enter"]
<1>1. call[c].at = "log" /\ UNCHANGED <<registry, ex, session, calls, writer, raced>>
  BY Zenon DEF WriteRecord
<1>2. /\ TrailInv /\ Shaped(call[c])
  BY Zenon DEF ExecutorInv, CallsAreShaped
<1>3. call[c].entry \in ExecutorEntry /\ (call[c].entry.act \in {"started", "moved"} => to # None)
  BY Zenon, <1>1, <1>2 DEF Shaped
<1>4. call[c].entry \in Entry
  BY Zenon, <1>3, ExecutorAssumption
<1>5. TrailInv' /\ unlogged' \in BOOLEAN
  BY Zenon, <1>1, <1>2, <1>4, LogInv, TrailFrame, InFlightIs DEF WriteRecord, LogLost
<1>6. ~ unlogged' => ~ unlogged /\ ledger' = Append(ledger, call[c].entry)
  BY Zenon DEF WriteRecord, Log
<1>7. /\ y \in Call
      /\ to = None => y = Idle /\ y.at = "idle"
      /\ to # None => y.at = "enter" /\ y.e = e /\ y.to = to /\ y.entry = call[c].entry
  BY Zenon, <1>1, InFlightIs DEF Call, Idle
<1>8. call' = [call EXCEPT ![c] = y]
  BY Zenon DEF WriteRecord
<1> HIDE DEF y
<1>9. e \in Executor /\ ex[e] \in ExecutorState /\ ex' = [ex EXCEPT ![e] = ex[e]]
  BY Zenon, <1>1, InFlightIs
<1>10. SessionAgrees'
  <2>1. UNCHANGED <<registry, session, writer>>
    BY Zenon, <1>1
  <2>2. call[c].at # "idle" /\ call[c].to # None =>
          /\ y.at # "idle" /\ y.e = call[c].e /\ y.to # None
          /\ call[c].entry.act = "started" => y.entry.act = "started"
    BY Zenon, <1>7
  <2> QED
    BY Zenon, <1>7, <1>8, <1>9, <2>1, <2>2, SessionStays
<1>11. Shaped(y)
  <2>1. CASE to = None
    BY <1>7, <2>1 DEF Shaped, Idle, NoEntry
  <2>2. CASE to # None
    BY Zenon, <1>3, <1>7, <1>9, <2>2 DEF Shaped
  <2> QED
    BY Zenon, <2>1, <2>2
<1>12. registry # None /\ ~ raced' =>
         /\ InFlight \subseteq {c} /\ registry = e
         /\ y.at # "idle" => y.e = registry
         /\ ~ unlogged' =>
              /\ ex[e].status = "not_started" => ex[e].current = None
              /\ y.at = "idle" => Explained(ex[e], ledger')
              /\ y.at # "idle" => Recorded(y, ex[e], ledger')
  <2> SUFFICES ASSUME registry # None, ~ raced
               PROVE  /\ InFlight \subseteq {c} /\ registry = e
                      /\ y.at # "idle" => y.e = registry
                      /\ ~ unlogged' =>
                           /\ ex[e].status = "not_started" => ex[e].current = None
                           /\ y.at = "idle" => Explained(ex[e], ledger')
                           /\ y.at # "idle" => Recorded(y, ex[e], ledger')
    BY Zenon, <1>1
  <2>1. /\ InFlight \subseteq {c} /\ registry = e
        /\ ~ unlogged => Recorded(call[c], ex[e], ledger)
    BY Zenon, <1>1, OnlyCall
  <2>2. y.at # "idle" => y.e = registry
    BY <1>7, <2>1
  <2>3. ASSUME ~ unlogged'
        PROVE  /\ ex[e].status = "not_started" => ex[e].current = None
               /\ y.at = "idle" => Explained(ex[e], ledger')
               /\ y.at # "idle" => Recorded(y, ex[e], ledger')
    <3>1. Foretells(call[c], ex[e])
      BY Zenon, <1>6, <2>1, <2>3 DEF Recorded
    <3>2. ledger' # << >> /\ Newest(ledger') = call[c].entry
      <4>1. ledger \in Seq(Entry)
        BY Zenon, <1>2 DEF TrailInv, TrailTypeOK
      <4> QED
        BY <1>4, <1>6, <2>3, <4>1, AppendProperties DEF Newest
    <3>3. ex[e].status # "not_started"
      BY Zenon, <1>1, <3>1 DEF Foretells
    <3>4. CASE to = None
      <4>1. Explains(call[c].entry, ex[e])
        BY Zenon, <1>1, <1>3, <3>1, <3>4 DEF Foretells, Explains
      <4> QED
        BY Zenon, <1>7, <3>2, <3>3, <3>4, <4>1 DEF Explained
    <3>5. CASE to # None
      <4>1. Foretells(y, ex[e])
        BY Zenon, <1>1, <1>7, <3>1, <3>5 DEF Foretells
      <4> QED
        BY Zenon, <1>7, <3>2, <3>3, <3>5, <4>1 DEF Recorded
    <3> QED
      BY Zenon, <3>4, <3>5
  <2> QED
    BY Zenon, <2>1, <2>2, <2>3
<1>13. /\ session' \in SessionState /\ writer' \in Executor \cup {None} /\ calls' \in 0 .. MaxCalls
       /\ raced' \in BOOLEAN
  BY Zenon, <1>1, InFlightIs
<1>14. /\ ex[e].current # None => ex[e].current \in DOMAIN Parsed[ex[e].file].steps
       /\ y.at # "idle" /\ y.to # None => y.to \in DOMAIN Parsed[ex[y.e].file].steps \cup {"end"}
  BY Zenon, <1>1, <1>7, InFlightIs
<1>15. y \in Call /\ registry' = registry
  BY Zenon, <1>1, <1>7
<1> HIDE DEF e, to
<1> QED
  BY Zenon, <1>5, <1>8, <1>9, <1>10, <1>11, <1>12, <1>13, <1>14, <1>15, ProgressInv

\* start and transition, after the record: the step it names is entered.
LEMMA ResumeEnterInv ==
  ASSUME ExecutorInv, NEW c \in Caller, ResumeEnter(c)
  PROVE  ExecutorInv'
<1> DEFINE e == call[c].e
           to == call[c].to
<1>1. /\ call[c].at = "enter" /\ to \in DOMAIN Parsed[ex[e].file].steps /\ Enter(e, to)
      /\ call' = [call EXCEPT ![c] = Idle]
      /\ UNCHANGED <<trailVars, registry, calls, raced, unlogged>>
  BY Zenon DEF ResumeEnter
<1>2. e \in Executor /\ TrailInv
  BY Zenon, <1>1, InFlightIs DEF ExecutorInv
<1>3. SessionAgrees' /\ session' \in SessionState /\ writer' \in Executor \cup {None}
  BY Zenon, <1>1, <1>2, EnterIs
<1>4. PICK x \in ExecutorState :
        /\ ex' = [ex EXCEPT ![e] = x]
        /\ x.file = ex[e].file /\ x.status = ex[e].status /\ x.current = to
  BY Zenon, <1>1, <1>2, EnterIs
<1>5. Idle \in Call /\ Idle.at = "idle" /\ Shaped(Idle)
  BY Zenon DEF Idle, NoEntry, Call, Shaped
<1>6. calls' \in 0 .. MaxCalls /\ raced' \in BOOLEAN /\ unlogged' \in BOOLEAN /\ registry' = registry
  BY Zenon, <1>1, InFlightIs
<1>7. TrailInv'
  BY Zenon, <1>1, <1>2, TrailFrame
<1>8. registry # None /\ ~ raced' =>
        /\ InFlight \subseteq {c} /\ registry = e
        /\ ~ unlogged' => x.status # "not_started" /\ Explained(x, ledger')
  <2> SUFFICES ASSUME registry # None, ~ raced
               PROVE  /\ InFlight \subseteq {c} /\ registry = e
                      /\ ~ unlogged => x.status # "not_started" /\ Explained(x, ledger)
    BY Zenon, <1>1 DEF trailVars
  <2>1. /\ InFlight \subseteq {c} /\ registry = e
        /\ ~ unlogged => Recorded(call[c], ex[e], ledger)
    BY Zenon, <1>1, OnlyCall
  <2>2. ASSUME ~ unlogged
        PROVE  x.status # "not_started" /\ Explained(x, ledger)
    <3>1. /\ Foretells(call[c], ex[e])
          /\ ledger # << >> /\ Newest(ledger) = call[c].entry
      BY Zenon, <1>1, <2>1, <2>2 DEF Recorded
    <3>2. to # None
      BY Zenon, <1>1 DEF ExecutorInv, CallsAreShaped, Shaped
    <3>3. Explains(call[c].entry, x) /\ x.status # "not_started"
      BY Zenon, <1>1, <1>4, <3>1, <3>2 DEF Foretells, Explains
    <3> QED
      BY Zenon, <3>1, <3>3 DEF Explained
  <2> QED
    BY Zenon, <2>1, <2>2
<1>9. x.current \in DOMAIN Parsed[x.file].steps
  BY Zenon, <1>1, <1>4
<1> HIDE DEF e, to
<1> QED
  BY Zenon, <1>1, <1>2, <1>3, <1>4, <1>5, <1>6, <1>7, <1>8, <1>9, ProgressInv

\* complete, up to its record: executor and session are both completed.
LEMMA FinishedIs ==
  ASSUME ExecutorInv, NEW e \in Executor, Finished(e)
  PROVE  /\ SessionAgrees' /\ session' \in SessionState /\ writer' \in Executor \cup {None}
         /\ \E x \in ExecutorState :
              /\ ex' = [ex EXCEPT ![e] = x]
              /\ x.file = ex[e].file /\ x.status = "completed" /\ x.current = None
<1> DEFINE x == [ex[e] EXCEPT !.status = "completed", !.current = None]
<1>1. /\ TypeOK /\ ex \in [Executor -> ExecutorState] /\ ex[e] \in ExecutorState
      /\ session \in SessionState
  BY Zenon, Fields DEF ExecutorInv, TypeOK
<1>2. /\ x \in ExecutorState /\ x.file = ex[e].file /\ x.status = "completed" /\ x.current = None
  BY Zenon, <1>1 DEF ExecutorState, Status
<1>3. ex' = [ex EXCEPT ![e] = x] /\ writer' = e
  BY Zenon, <1>1 DEF Finished
<1> HIDE DEF x
<1>4. session' \in SessionState /\ session'.status = "completed" /\ session'.step = None
  BY Zenon, <1>1 DEF Finished, SessionState, Status
<1>5. SessionAgrees'
  BY Zenon, <1>1, <1>2, <1>3, <1>4 DEF SessionAgrees
<1> QED
  BY Zenon, <1>2, <1>3, <1>4, <1>5

\* transition to "end", after its record: the completion has a record of its own.
LEMMA ResumeEndInv ==
  ASSUME ExecutorInv, NEW c \in Caller, ResumeEnd(c)
  PROVE  ExecutorInv'
<1> DEFINE e == call[c].e
           entry == Entered("completed", None, None)
           y == [call[c] EXCEPT !.at = "log", !.to = None, !.entry = entry]
<1>1. /\ call[c].at = "enter" /\ Finished(e) /\ call' = [call EXCEPT ![c] = y]
      /\ UNCHANGED <<trailVars, registry, calls, raced, unlogged>>
  BY Zenon DEF ResumeEnd
<1>2. e \in Executor /\ TrailInv
  BY Zenon, <1>1, InFlightIs DEF ExecutorInv
<1>3. entry \in ExecutorEntry /\ entry.act = "completed"
  BY Zenon DEF Entered, ExecutorEntry
<1> HIDE DEF entry
<1>4. y \in Call /\ y.at = "log" /\ y.e = e /\ y.to = None /\ y.entry = entry
  BY Zenon, <1>1, <1>3, InFlightIs DEF Call
<1> HIDE DEF y
<1>5. SessionAgrees' /\ session' \in SessionState /\ writer' \in Executor \cup {None}
  BY Zenon, <1>1, <1>2, FinishedIs
<1>6. PICK x \in ExecutorState :
        /\ ex' = [ex EXCEPT ![e] = x]
        /\ x.file = ex[e].file /\ x.status = "completed" /\ x.current = None
  BY Zenon, <1>1, <1>2, FinishedIs
<1>7. Shaped(y)
  BY Zenon, <1>2, <1>3, <1>4 DEF Shaped
<1>8. calls' \in 0 .. MaxCalls /\ raced' \in BOOLEAN /\ unlogged' \in BOOLEAN /\ registry' = registry
  BY Zenon, <1>1, InFlightIs
<1>9. TrailInv'
  BY Zenon, <1>1, <1>2, TrailFrame
<1>10. Recorded(y, x, ledger')
  BY Zenon, <1>3, <1>4, <1>6 DEF Recorded, Foretells
<1>11. registry # None /\ ~ raced' => InFlight \subseteq {c} /\ registry = e
  BY Zenon, <1>1, OnlyCall
<1> HIDE DEF e
<1> QED
  BY Zenon, <1>1, <1>2, <1>4, <1>5, <1>6, <1>7, <1>8, <1>9, <1>10, <1>11, ProgressInv

\* complete called by the host.
LEMMA CompleteInv ==
  ASSUME ExecutorInv, NEW c \in Caller, Complete(c)
  PROVE  ExecutorInv'
<1> DEFINE entry == Entered("completed", None, None)
           y == [at |-> "log", e |-> registry, to |-> None, entry |-> entry]
<1>1. /\ registry \in Executor /\ registry # None /\ call' = [call EXCEPT ![c] = y]
      /\ raced' = (raced \/ InFlight # {}) /\ raced' \in BOOLEAN /\ calls' \in 0 .. MaxCalls
  BY Zenon, BeginsIs DEF Complete
<1>2. Finished(registry) /\ UNCHANGED <<trailVars, registry, unlogged>>
  BY Zenon DEF Complete
<1>3. entry \in ExecutorEntry /\ entry.act = "completed"
  BY Zenon DEF Entered, ExecutorEntry
<1> HIDE DEF entry
<1>4. y \in Call /\ y.at = "log" /\ y.e = registry /\ y.to = None /\ y.entry = entry
  BY Zenon, <1>1, <1>3 DEF Call
<1> HIDE DEF y
<1>5. SessionAgrees' /\ session' \in SessionState /\ writer' \in Executor \cup {None}
  BY Zenon, <1>1, <1>2, FinishedIs
<1>6. PICK x \in ExecutorState :
        /\ ex' = [ex EXCEPT ![registry] = x]
        /\ x.file = ex[registry].file /\ x.status = "completed" /\ x.current = None
  BY Zenon, <1>1, <1>2, FinishedIs
<1>7. Shaped(y)
  BY Zenon, <1>1, <1>3, <1>4 DEF Shaped
<1>8. unlogged' \in BOOLEAN /\ registry' = registry /\ TrailInv'
  BY Zenon, <1>2, TrailFrame DEF ExecutorInv, TypeOK
<1>9. Recorded(y, x, ledger')
  BY Zenon, <1>3, <1>4, <1>6 DEF Recorded, Foretells
<1>10. registry # None /\ ~ raced' => InFlight \subseteq {c}
  BY Zenon, <1>1
<1> QED
  BY Zenon, <1>1, <1>4, <1>5, <1>6, <1>7, <1>8, <1>9, <1>10, ProgressInv

\* escalate: the step is kept, and the record names it.
LEMMA EscalateInv ==
  ASSUME ExecutorInv, NEW c \in Caller, Escalate(c)
  PROVE  ExecutorInv'
<1> DEFINE entry == Entered("escalated", None, ex[registry].current)
           y == [at |-> "log", e |-> registry, to |-> None, entry |-> entry]
           x == [ex[registry] EXCEPT !.status = "escalated"]
<1>1. /\ registry \in Executor /\ registry # None /\ call[c].at = "idle"
      /\ call' = [call EXCEPT ![c] = y]
      /\ raced' = (raced \/ InFlight # {}) /\ raced' \in BOOLEAN /\ calls' \in 0 .. MaxCalls
  BY Zenon, BeginsIs DEF Escalate
<1>2. /\ TypeOK /\ TrailInv /\ ex \in [Executor -> ExecutorState] /\ ex[registry] \in ExecutorState
      /\ ex[registry].current \in StepId \cup {None} /\ session \in SessionState
      /\ writer \in Executor \cup {None} /\ call \in [Caller -> Call]
  BY Zenon, <1>1, Fields DEF ExecutorInv, TypeOK
<1>3. /\ ex' = [ex EXCEPT ![registry] = x] /\ session' = [session EXCEPT !.status = "escalated"]
      /\ UNCHANGED <<trailVars, registry, writer, unlogged>>
  BY Zenon DEF Escalate
<1>4. entry \in ExecutorEntry /\ entry.act = "escalated" /\ entry.from = ex[registry].current
  BY Zenon, <1>2 DEF Entered, ExecutorEntry
<1> HIDE DEF entry
<1>5. y \in Call /\ y.at = "log" /\ y.e = registry /\ y.to = None /\ y.entry = entry
  BY Zenon, <1>1, <1>4 DEF Call
<1>6. /\ x \in ExecutorState /\ x.file = ex[registry].file /\ x.status = "escalated"
      /\ x.current = ex[registry].current
  BY Zenon, <1>2 DEF ExecutorState, Status
<1> HIDE DEF x, y
<1>7. session' \in SessionState /\ session'.status = "escalated" /\ session'.step = session.step
  BY Zenon, <1>2, <1>3 DEF SessionState, Status
<1>8. SessionAgrees'
  <2> SUFFICES ASSUME writer # None, writer = registry
               PROVE  /\ session'.status = ex'[writer].status
                      /\ session'.step = ex'[writer].current \/ Starting(writer)'
    BY Zenon, <1>3, <1>7 DEF SessionAgrees, Starting
  <2>1. ex'[writer] = x
    BY Zenon, <1>2, <1>3
  <2>2. session.step = ex[writer].current \/ Starting(writer)
    BY Zenon DEF ExecutorInv, SessionAgrees
  <2>3. \A d \in Caller : call[d].at # "idle" => call'[d] = call[d]
    BY Zenon, <1>1, <1>2
  <2>4. Starting(writer) => Starting(writer)'
    BY Zenon, <1>3, <2>3 DEF Starting, InFlight
  <2> QED
    BY Zenon, <1>6, <1>7, <2>1, <2>2, <2>4
<1>9. Shaped(y)
  BY Zenon, <1>1, <1>4, <1>5 DEF Shaped
<1>10. unlogged' \in BOOLEAN /\ registry' = registry /\ TrailInv' /\ writer' \in Executor \cup {None}
  BY Zenon, <1>2, <1>3, TrailFrame DEF TypeOK
<1>11. Recorded(y, x, ledger')
  BY Zenon, <1>4, <1>5, <1>6 DEF Recorded, Foretells
<1>12. x.current # None => x.current \in DOMAIN Parsed[x.file].steps
  BY Zenon, <1>1, <1>6 DEF ExecutorInv, StepsAreKnown
<1>13. registry # None /\ ~ raced' => InFlight \subseteq {c}
  BY Zenon, <1>1
<1> QED
  BY Zenon, <1>1, <1>3, <1>5, <1>6, <1>7, <1>8, <1>9, <1>10, <1>11, <1>12, <1>13, ProgressInv

\* A new executor takes the place of the old one; calls in flight on that one race with
\* the calls to come.
LEMMA CreateInv ==
  ASSUME ExecutorInv, NEW e \in Executor, NEW file \in Loaded, Create(e, file)
  PROVE  ExecutorInv'
<1>1. /\ TypeOK /\ TrailInv /\ ex \in [Executor -> ExecutorState]
      /\ StepsAreKnown /\ CallsAreShaped
  BY Zenon DEF ExecutorInv, TypeOK
<1>2. /\ \A c \in InFlight : call[c].e # e
      /\ registry' = e /\ ex' = [ex EXCEPT ![e] = New(file)]
      /\ writer' = IF writer = e THEN None ELSE writer
      /\ raced' = (InFlight # {}) /\ unlogged' = FALSE
      /\ UNCHANGED <<trailVars, session, call, calls>>
  BY Zenon DEF Create
<1>3. /\ New(file) \in ExecutorState /\ New(file).status = "not_started" /\ New(file).current = None
  BY Zenon DEF New, ExecutorState, Status
<1>4. ex'[e] = New(file) /\ \A d \in Executor : d # e => ex'[d] = ex[d]
  BY Zenon, <1>1, <1>2
<1>5. TrailInv'
  BY Zenon, <1>1, <1>2, TrailFrame
<1>6. TypeOK'
  <2>1. ex' \in [Executor -> ExecutorState]
    BY Zenon, <1>1, <1>2, <1>3
  <2> QED
    BY Zenon, <1>1, <1>2, <1>5, <2>1 DEF TypeOK, TrailInv
<1>7. StepsAreKnown'
  <2>1. \A d \in Executor : ex'[d].current # None => ex'[d].current \in DOMAIN Parsed[ex'[d].file].steps
    BY Zenon, <1>1, <1>3, <1>4 DEF StepsAreKnown
  <2>2. \A c \in Caller : call[c].at # "idle" => call[c].e \in Executor /\ ex'[call[c].e] = ex[call[c].e]
    BY Zenon, <1>1, <1>2, <1>4 DEF CallsAreShaped, Shaped, InFlight
  <2> QED
    BY Zenon, <1>1, <1>2, <2>1, <2>2 DEF StepsAreKnown, EntersKnownStep
<1>8. CallsAreShaped'
  BY Zenon, <1>1, <1>2 DEF CallsAreShaped
<1>9. writer' # registry'
  BY Zenon, <1>2, LoadedProcedures
<1>10. SessionAgrees'
  BY Zenon, <1>9 DEF SessionAgrees
<1>11. OneCall'
  BY Zenon, <1>2 DEF OneCall, InFlight
<1>12. RecordsExplain'
  BY Zenon, <1>2, <1>3, <1>4 DEF RecordsExplain, Explained, InFlight
<1> QED
  BY Zenon, <1>5, <1>6, <1>7, <1>8, <1>10, <1>11, <1>12 DEF ExecutorInv

\* Without an executor of the session nothing is claimed of it.
LEMMA NoExecutorInv ==
  ASSUME ExecutorInv, TrailInv', registry' = None, CallsAreShaped', EntersKnownStep',
         call' \in [Caller -> Call],
         UNCHANGED <<ex, session, calls, writer, raced, unlogged>>
  PROVE  ExecutorInv'
<1>1. TypeOK' /\ StepsAreKnown'
  BY Zenon DEF ExecutorInv, TypeOK, TrailInv, StepsAreKnown
<1>2. SessionAgrees' /\ OneCall' /\ RecordsExplain'
  BY Zenon DEF SessionAgrees, OneCall, RecordsExplain
<1> QED
  BY Zenon, <1>1, <1>2 DEF ExecutorInv

\* A restart loses the executors and the calls in flight, and keeps session and trail.
LEMMA RestartInv ==
  ASSUME ExecutorInv, Restart
  PROVE  ExecutorInv'
<1>1. /\ TrailInv' /\ registry' = None /\ call' = [c \in Caller |-> Idle]
      /\ UNCHANGED <<ex, session, calls, writer, raced, unlogged>>
  BY Zenon, InitDbInv DEF ExecutorInv, Restart
<1>2. Idle \in Call /\ Idle.at = "idle" /\ Shaped(Idle)
  BY Zenon DEF Idle, NoEntry, Call, Shaped
<1>3. CallsAreShaped' /\ EntersKnownStep' /\ call' \in [Caller -> Call]
  BY Zenon, <1>1, <1>2 DEF CallsAreShaped, EntersKnownStep
<1> QED
  BY Zenon, <1>1, <1>3, NoExecutorInv

\* ProcedureExecutorRegistry.remove
LEMMA RemoveExecutorInv ==
  ASSUME ExecutorInv, RemoveExecutor
  PROVE  ExecutorInv'
<1>1. /\ registry' = None /\ call' = call /\ UNCHANGED trailVars
      /\ UNCHANGED <<ex, session, calls, writer, raced, unlogged>>
  BY Zenon DEF RemoveExecutor
<1>2. TrailInv'
  BY Zenon, <1>1, TrailFrame DEF ExecutorInv
<1>3. CallsAreShaped' /\ EntersKnownStep' /\ call' \in [Caller -> Call]
  BY Zenon, <1>1 DEF ExecutorInv, TypeOK, CallsAreShaped, StepsAreKnown, EntersKnownStep
<1> QED
  BY Zenon, <1>1, <1>2, <1>3, NoExecutorInv

\* A step that leaves executors, calls, session and ledger alone.
LEMMA ExecutorFrame ==
  ASSUME ExecutorInv, TrailInv', UNCHANGED <<executorVars, ledger>>
  PROVE  ExecutorInv'
<1>1. UNCHANGED <<registry, ex, session, call, calls, writer, raced, unlogged, ledger>>
  BY Zenon DEF executorVars
<1>2. TypeOK' /\ StepsAreKnown' /\ CallsAreShaped'
  BY Zenon, <1>1 DEF ExecutorInv, TypeOK, TrailInv, StepsAreKnown, EntersKnownStep, CallsAreShaped
<1>3. SessionAgrees'
  BY Zenon, <1>1 DEF ExecutorInv, SessionAgrees, Starting, Entering, InFlight
<1>4. OneCall' /\ RecordsExplain'
  BY Zenon, <1>1 DEF ExecutorInv, OneCall, RecordsExplain, InFlight
<1> QED
  BY Zenon, <1>2, <1>3, <1>4 DEF ExecutorInv


\* A record edited or deleted behind the engine's back does not change what was recorded.
LEMMA TamperedInv ==
  ASSUME ExecutorInv, Tampered
  PROVE  ExecutorInv'
<1>1. TrailInv'
  BY Zenon, OutsideInv DEF ExecutorInv, Tampered
<1>2. UNCHANGED <<executorVars, ledger>>
  BY Zenon DEF Tampered, Outside, DeleteMiddle, Edit
<1> QED
  BY Zenon, <1>1, <1>2, ExecutorFrame

\* The engine comes up with a trail the v2 engine left and without executors.
LEMMA InitExecutorInv == Init => ExecutorInv
<1> SUFFICES ASSUME Init
             PROVE  ExecutorInv
  OBVIOUS
<1> DEFINE file == CHOOSE f \in Loaded : TRUE
<1>1. TrailInv
  BY Zenon, TrailStarts DEF Init
<1>2. file \in Loaded
  BY Zenon, ExecutorAssumption
<1>3. ex \in [Executor -> {New(file)}]
  BY Zenon DEF Init
<1> HIDE DEF file
<1>4. New(file) \in ExecutorState /\ New(file).current = None
  BY Zenon, <1>2 DEF New, ExecutorState, Status
<1>5. ex \in [Executor -> ExecutorState] /\ \A e \in Executor : ex[e].current = None
  BY Zenon, <1>3, <1>4
<1>6. Idle \in Call /\ Idle.at = "idle" /\ Shaped(Idle)
  BY Zenon DEF Idle, NoEntry, Call, Shaped
<1>7. call \in [Caller -> Call] /\ \A c \in Caller : call[c] = Idle
  BY Zenon, <1>6 DEF Init
<1>8. calls \in 0 .. MaxCalls /\ session \in SessionState
  BY ExecutorAssumption DEF Init, SessionState, Status
<1>9. TypeOK
  BY Zenon, <1>1, <1>5, <1>7, <1>8 DEF Init, TypeOK, TrailInv
<1>10. StepsAreKnown /\ CallsAreShaped
  BY Zenon, <1>5, <1>6, <1>7 DEF StepsAreKnown, EntersKnownStep, CallsAreShaped
<1>11. SessionAgrees /\ OneCall /\ RecordsExplain
  BY Zenon DEF Init, SessionAgrees, OneCall, RecordsExplain
<1> QED
  BY Zenon, <1>1, <1>9, <1>10, <1>11 DEF ExecutorInv

\* Every step of a caller, of the registry, of the process or of an outsider.
LEMMA NextExecutorInv == ExecutorInv /\ [Next]_vars => ExecutorInv'
<1> SUFFICES ASSUME ExecutorInv, [Next]_vars
             PROVE  ExecutorInv'
  OBVIOUS
<1>1. CASE Restart
  BY Zenon, <1>1, RestartInv
<1>2. CASE RemoveExecutor
  BY Zenon, <1>2, RemoveExecutorInv
<1>3. CASE \E e \in Executor, file \in Loaded : Create(e, file)
  BY Zenon, <1>3, CreateInv
<1>4. ASSUME NEW c \in Caller,
             \/ Start(c) \/ EnterStep(c) \/ Transition(c) \/ AfterExitHooks(c) \/ WriteRecord(c)
             \/ ResumeEnter(c) \/ ResumeEnd(c) \/ Complete(c) \/ Escalate(c)
      PROVE  ExecutorInv'
  BY Zenon, <1>4, StartInv, EnterStepInv, TransitionInv, AfterExitHooksInv, WriteRecordInv,
     ResumeEnterInv, ResumeEndInv, CompleteInv, EscalateInv
<1>5. CASE Tampered
  BY Zenon, <1>5, TamperedInv
<1>6. CASE UNCHANGED vars
  <2>1. UNCHANGED <<executorVars, ledger>> /\ UNCHANGED trailVars
    BY Zenon, <1>6 DEF vars, trailVars
  <2>2. TrailInv'
    BY Zenon, <2>1, TrailFrame DEF ExecutorInv
  <2> QED
    BY Zenon, <2>1, <2>2, ExecutorFrame
<1> QED
  BY Zenon, <1>1, <1>2, <1>3, <1>4, <1>5, <1>6 DEF Next

\* The invariant of executors, calls, session and trail: it holds however the calls of
\* the session, restarts and changes of the table interleave.
THEOREM ExecutorIsSafe == Spec => []ExecutorInv
BY InitExecutorInv, NextExecutorInv, PTL DEF Spec

\* Executors hold loaded procedures, and calls, session and trail keep their shape.
THEOREM ExecutorTypes == Spec => []TypeOK
<1>1. ExecutorInv => TypeOK
  BY Zenon DEF ExecutorInv
<1> QED
  BY <1>1, ExecutorIsSafe, PTL

\* With the executors' calls, restarts and lost records among its writers, verify_chain
\* still detects exactly the edited and deleted records.
THEOREM ExecutorTrailTells == Spec => []ChainTellsTampering
<1>1. ExecutorInv => ChainTellsTampering
  BY Zenon, TrailInvTells DEF ExecutorInv
<1> QED
  BY <1>1, ExecutorIsSafe, PTL

\* No call of a procedure that loaded reaches enter_step with a step it does not have.
THEOREM KnownStepsOnly == Spec => []EntersKnownStep
<1>1. ExecutorInv => EntersKnownStep
  BY Zenon DEF ExecutorInv, StepsAreKnown
<1> QED
  BY <1>1, ExecutorIsSafe, PTL

\* _update_session_state, complete and escalate keep the session with the executor that
\* wrote it last.
THEOREM SessionShowsExecutor == Spec => []SessionFollows
<1>1. ExecutorInv => SessionFollows
  BY Zenon DEF ExecutorInv, SessionAgrees, SessionFollows, Entering
<1> QED
  BY <1>1, ExecutorIsSafe, PTL

\* The newest record explains where the executor is, whatever the procedure is.
THEOREM NewestRecordExplains == Spec => []AuditExplains
<1>1. ExecutorInv => AuditExplains
  BY Zenon DEF ExecutorInv, RecordsExplain, Explained, AuditExplains
<1> QED
  BY <1>1, ExecutorIsSafe, PTL

=============================================================================
