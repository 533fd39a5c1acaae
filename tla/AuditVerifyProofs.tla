--------------------------- MODULE AuditVerifyProofs ---------------------------
(***************************************************************************)
(* A log that verifies against a kept head is the log the head was taken   *)
(* from, for any number of rows, bodies and damaging statements.           *)
(*                                                                         *)
(* The head commits to the last row, and that row to the one before it: if *)
(* two good chains with one head differed anywhere, the last place they    *)
(* differ would be followed by a place where they agree, whose prev_hash   *)
(* is the hash of both rows before it.                                     *)
(*                                                                         *)
(* And what the verifier finds is so: nothing in a log that verifies is    *)
(* forged, a log that nothing damaged raises no alarm, and one damaging    *)
(* statement is named for what it did.                                     *)
(***************************************************************************)
EXTENDS AuditVerify, TLAPS, FiniteSetTheorems, SequenceTheorems, WellFoundedInduction

\* What verify_chain accepts: at least one row, and every row linked.
GoodChain(chain) ==
    /\ Len(chain) \in Nat \ {0}
    /\ \A i \in 1 .. Len(chain) : Linked(chain, i)

-----------------------------------------------------------------------------

\* Hashes are equal only for equal rows.
LEMMA HashIsInjective ==
    ASSUME NEW r, NEW q, Hash(r) = Hash(q)
    PROVE  SameRow(r, q)
BY DEF Hash, SameRow

\* A linked row's number is its place.
LEMMA SameHeadSameLength ==
    ASSUME NEW r, NEW q, GoodChain(r), GoodChain(q), HeadHash(r) = HeadHash(q)
    PROVE  Len(r) = Len(q)
<1>1. SameRow(r[Len(r)], q[Len(q)])
  BY HashIsInjective DEF HeadHash
<1>2. /\ r[Len(r)].sequence = Len(r) - 1
      /\ q[Len(q)].sequence = Len(q) - 1
  BY DEF GoodChain, Linked
<1>3. Len(r) \in Nat /\ Len(q) \in Nat
  BY DEF GoodChain
<1>4. Len(r) - 1 = Len(q) - 1
  BY <1>1, <1>2 DEF SameRow
<1> QED
  BY <1>3, <1>4

\* Rows that agree follow rows that agree.
LEMMA AgreementGoesBack ==
    ASSUME NEW r, NEW q, GoodChain(r), GoodChain(q), Len(r) = Len(q),
           NEW i \in 1 .. Len(r), i # 1, SameRow(r[i], q[i])
    PROVE  SameRow(r[i - 1], q[i - 1])
<1>1. Linked(r, i) /\ Linked(q, i)
  BY DEF GoodChain
<1>2. Hash(r[i - 1]) = Hash(q[i - 1])
  BY <1>1 DEF Linked, SameRow
<1> QED
  BY <1>2, HashIsInjective

\* Numbers have a least one: what holds of all numbers is proved of the least
\* that it does not hold of.
LEMMA LeastNumber ==
    ASSUME NEW S \in SUBSET Nat, S # {}
    PROVE  \E j \in S : \A k \in S : ~(k < j)
<1>1. IsWellFoundedOn(OpToRel(<, Nat), Nat)
  BY NatLessThanWellFounded
<1>2. PICK j \in S : \A k \in S : ~(<<k, j>> \in OpToRel(<, Nat))
  BY <1>1, WFMin
<1>3. \A k \in S : k < j => <<k, j>> \in OpToRel(<, Nat)
  BY DEF OpToRel
<1> QED
  BY <1>2, <1>3

LEMMA SameHeadSameRows ==
    ASSUME NEW r, NEW q, GoodChain(r), GoodChain(q), HeadHash(r) = HeadHash(q)
    PROVE  SameRows(r, q)
<1> DEFINE n == Len(r)
           Differ == {j \in Nat : j < n /\ ~SameRow(r[n - j], q[n - j])}
<1>1. n \in Nat \ {0} /\ Len(q) = n
  BY SameHeadSameLength DEF GoodChain
<1>2. SUFFICES ASSUME Differ # {} PROVE FALSE
  <2>1. SUFFICES ASSUME Differ = {} PROVE \A i \in 1 .. n : SameRow(r[i], q[i])
    BY <1>1, <1>2 DEF SameRows
  <2>2. TAKE i \in 1 .. n
  <2>3. n - i \in Nat /\ n - i < n /\ n - (n - i) = i
    BY <1>1
  <2> QED
    BY <2>1, <2>3
<1>3. PICK j \in Differ : \A k \in Differ : ~(k < j)
  <2>1. Differ \subseteq Nat
    OBVIOUS
  <2> QED
    BY <1>2, <2>1, LeastNumber
<1>4. CASE j = 0
  <2>1. SameRow(r[n], q[n])
    BY <1>1, HashIsInjective DEF HeadHash
  <2> QED
    BY <1>1, <1>4, <2>1
<1>5. CASE j # 0
  <2>1. j \in Nat /\ j < n /\ ~SameRow(r[n - j], q[n - j])
    BY <1>3
  <2>2. j - 1 \in Nat /\ j - 1 < j /\ j - 1 < n /\ j - 1 \notin Differ
    BY <1>1, <1>3, <1>5, <2>1
  <2>3. SameRow(r[n - (j - 1)], q[n - (j - 1)])
    BY <2>2
  <2>4. /\ n - (j - 1) \in 1 .. n /\ n - (j - 1) # 1
        /\ n - (j - 1) - 1 = n - j
    BY <1>1, <1>5, <2>1
  <2>5. SameRow(r[n - (j - 1) - 1], q[n - (j - 1) - 1])
    BY <1>1, <2>3, <2>4, AgreementGoesBack
  <2> QED
    BY <2>1, <2>4, <2>5
<1> QED
  BY <1>4, <1>5

-----------------------------------------------------------------------------

\* What the verifier goes on to compare, and what it reports as verified, is
\* a good chain with the head it was asked for; what was pinned is one too.
PinInv ==
    /\ IsFiniteSet(DOMAIN stored)
    /\ pin # None => GoodChain(pinned) /\ pin = HeadHash(pinned)
    /\ pc = "compare" \/ Verified =>
            GoodChain(rows) /\ expected \in {None, HeadHash(rows)}
    /\ Verified => report.head_hash = HeadHash(rows)

\* Only a report of its own kind is one.
LEMMA AnswerOfAnotherKind ==
    ASSUME NEW kind \in ChainFailureKind \ {"none"}, NEW checked, NEW bad, NEW head,
           Answer(kind, checked, bad, head)
    PROVE  pc' # "compare" /\ ~Verified'
BY DEF Answer, Verified, ExitCode, ChainFailureKind

\* CheckChain lets good chains through, and no others.
LEMMA CheckChainLetsGoodThrough ==
    ASSUME NEW chain, NEW head, Len(chain) \in Nat,
           Len(chain) = 0 => chain = <<>>,
           CheckChain(chain, head)
    PROVE  /\ ~Verified'
           /\ pc' = "compare" => GoodChain(chain) /\ head \in {None, HeadHash(chain)}
<1>1. CASE chain = <<>>
  BY <1>1, AnswerOfAnotherKind DEF CheckChain, ChainFailureKind
<1>2. CASE chain # <<>> /\ Broken(chain) # {}
  <2>1. ChainIsInvalid(chain)
    BY <1>2 DEF CheckChain
  <2> DEFINE kind == IF \A k \in 1 .. Len(chain) : chain[k].sequence = k - 1
                     THEN "broken_link" ELSE "sequence_gap"
             i == Least(Broken(chain))
  <2>2. Answer(kind, i - 1, chain[i].sequence, None)
    BY <2>1 DEF ChainIsInvalid
  <2>3. kind \in ChainFailureKind \ {"none"}
    BY DEF ChainFailureKind
  <2> HIDE DEF kind, i
  <2> QED
    BY <2>2, <2>3, AnswerOfAnotherKind
<1>3. CASE chain # <<>> /\ Broken(chain) = {} /\ head \notin {None, HeadHash(chain)}
  BY <1>3, AnswerOfAnotherKind DEF CheckChain, ChainFailureKind
<1>4. CASE chain # <<>> /\ Broken(chain) = {} /\ head \in {None, HeadHash(chain)}
  <2>1. pc' = "compare"
    BY <1>4 DEF CheckChain
  <2>2. GoodChain(chain)
    BY <1>4 DEF GoodChain, Broken
  <2> QED
    BY <1>4, <2>1, <2>2 DEF Verified
<1> QED
  BY <1>1, <1>2, <1>3, <1>4

-----------------------------------------------------------------------------

\* As many rows are read as the table has.
LEMMA AllRowsIsASequence ==
    ASSUME IsFiniteSet(DOMAIN stored)
    PROVE  Len(AllRows) \in Nat /\ (Len(AllRows) = 0 => AllRows = <<>>)
<1>1. RowCount \in Nat
  BY FS_CardinalityType DEF RowCount
<1>2. Len(AllRows) = RowCount
  BY <1>1 DEF AllRows
<1>3. RowCount = 0 => AllRows = <<>>
  BY DEF AllRows
<1> QED
  BY <1>1, <1>2, <1>3

\* No statement makes the table infinite.
LEMMA StepFinite ==
    ASSUME IsFiniteSet(DOMAIN stored), [Next]_vars
    PROVE  IsFiniteSet(DOMAIN stored')
<1>1. CASE UNCHANGED vars
  BY <1>1 DEF vars, log
<1>2. ASSUME NEW body \in Body, Append_(body) PROVE IsFiniteSet(DOMAIN stored')
  <2> DEFINE row == NextRow(TailBlob, body)
  <2>1. DOMAIN stored' = DOMAIN stored \cup {row.sequence}
    BY <1>2 DEF Append_
  <2> QED
    BY <2>1, FS_AddElement
<1>3. ASSUME NEW s \in DOMAIN stored, Garble(s) \/ EditBlob(s) PROVE IsFiniteSet(DOMAIN stored')
  <2>1. PICK blob : stored' = [stored EXCEPT ![s].blob = blob]
    BY <1>3 DEF Garble, EditBlob, Edit, SetBlob
  <2>2. DOMAIN stored' = DOMAIN stored
    BY <2>1
  <2> QED
    BY <2>2
<1>4. ASSUME NEW s \in DOMAIN stored, EditColumn(s) PROVE IsFiniteSet(DOMAIN stored')
  <2>1. DOMAIN stored' = DOMAIN stored
    BY <1>4 DEF EditColumn
  <2> QED
    BY <2>1
<1>5. ASSUME NEW s \in DOMAIN stored, Delete(s) PROVE IsFiniteSet(DOMAIN stored')
  <2>1. DOMAIN stored' = DOMAIN stored \ {s}
    BY <1>5 DEF Delete
  <2> QED
    BY <2>1, FS_Subset
<1>6. ASSUME NEW s \in DOMAIN stored, Move(s) PROVE IsFiniteSet(DOMAIN stored')
  <2>1. PICK t : DOMAIN stored' = (DOMAIN stored \ {s}) \cup {t}
    BY <1>6 DEF Move
  <2>2. IsFiniteSet(DOMAIN stored \ {s})
    BY FS_Subset
  <2> QED
    BY <2>1, <2>2, FS_AddElement
<1>7. ASSUME NEW s \in DOMAIN stored, Rewrite(s) PROVE IsFiniteSet(DOMAIN stored')
  <2>1. DOMAIN stored' = DOMAIN stored
    BY <1>7 DEF Rewrite
  <2> QED
    BY <2>1
<1>8. CASE DropTable
  <2>1. DOMAIN stored' = {}
    BY <1>8 DEF DropTable
  <2> QED
    BY <2>1, FS_EmptySet
<1>9. CASE Verify \/ Pin
  BY <1>9 DEF Verify, Pin, ReadAll, AttributeReadFailure, CompareColumns, log
<1> QED
  BY <1>1, <1>2, <1>3, <1>4, <1>5, <1>6, <1>7, <1>8, <1>9 DEF Next, DamageTable

\* Only the verifier moves the verifier, and only Pin the pin.
LEMMA OthersLeaveVerifier ==
    ASSUME \/ \E body \in Body : Append_(body)
           \/ DamageTable
           \/ UNCHANGED vars
    PROVE  UNCHANGED <<verifier, pin, pinned>>
<1>1. CASE \E body \in Body : Append_(body)
  BY <1>1 DEF Append_
<1>2. CASE DamageTable
  BY <1>2 DEF DamageTable, Damage, DropTable, Garble, EditBlob, Edit, EditColumn, Delete,
              Move, Rewrite
<1>3. CASE UNCHANGED vars
  BY <1>3 DEF vars
<1> QED
  BY <1>1, <1>2, <1>3

LEMMA StepPin == PinInv /\ [Next]_vars => PinInv'
<1> SUFFICES ASSUME PinInv, [Next]_vars PROVE PinInv'
  OBVIOUS
<1>0. IsFiniteSet(DOMAIN stored')
  BY StepFinite DEF PinInv
<1>1. CASE (\E body \in Body : Append_(body)) \/ DamageTable \/ UNCHANGED vars
  <2>1. UNCHANGED <<verifier, pin, pinned>>
    BY <1>1, OthersLeaveVerifier
  <2> QED
    BY <1>0, <2>1 DEF PinInv, verifier, Verified
<1>2. ASSUME NEW head \in {None, pin}, ReadAll(head) PROVE PinInv'
  <2>1. UNCHANGED <<pin, pinned>> /\ expected' = head
    BY <1>2 DEF ReadAll
  <2>2. Len(AllRows) \in Nat /\ (Len(AllRows) = 0 => AllRows = <<>>)
    BY AllRowsIsASequence DEF PinInv
  <2>3. /\ ~Verified'
        /\ pc' = "compare" => GoodChain(rows') /\ head \in {None, HeadHash(rows')}
    <3>1. CASE rows' = AllRows /\ CheckChain(AllRows, head)
      BY <2>2, <3>1, CheckChainLetsGoodThrough
    <3>2. CASE Answer("chain_unreadable", 0, None, None)
      BY <3>2, AnswerOfAnotherKind DEF ChainFailureKind
    <3>3. CASE pc' = "attribute"
      BY <3>3 DEF Verified
    <3> QED
      BY <1>2, <3>1, <3>2, <3>3 DEF ReadAll
  <2> QED
    BY <1>0, <2>1, <2>3 DEF PinInv
<1>3. CASE AttributeReadFailure
  <2>1. UNCHANGED <<pin, pinned>>
    BY <1>3 DEF AttributeReadFailure
  <2>2. PICK kind, checked, bad :
            kind \in ChainFailureKind \ {"none"} /\ Answer(kind, checked, bad, None)
    BY <1>3 DEF AttributeReadFailure, KindOfUnparsed, ChainFailureKind
  <2>3. pc' # "compare" /\ ~Verified'
    BY <2>2, AnswerOfAnotherKind
  <2> QED
    BY <1>0, <2>1, <2>3 DEF PinInv
<1>4. CASE CompareColumns
  <2>1. UNCHANGED <<pin, pinned, rows, expected>> /\ pc = "compare"
    BY <1>4 DEF CompareColumns
  <2>2. GoodChain(rows) /\ expected \in {None, HeadHash(rows)}
    BY <2>1 DEF PinInv
  <2>3. pc' # "compare" /\ (Verified' => report'.head_hash = HeadHash(rows))
    <3>1. CASE \E checked, bad : Answer("column_mismatch", checked, bad, None)
      BY <3>1, AnswerOfAnotherKind DEF ChainFailureKind
    <3>2. CASE Answer("chain_unreadable", 0, None, None)
      BY <3>2, AnswerOfAnotherKind DEF ChainFailureKind
    <3>3. CASE Answer("none", Len(rows), None, HeadHash(rows))
      BY <3>3 DEF Answer
    <3> QED
      BY <1>4, <3>1, <3>2, <3>3 DEF CompareColumns
  <2> QED
    BY <1>0, <2>1, <2>2, <2>3 DEF PinInv
<1>5. CASE Pin
  <2>1. /\ UNCHANGED <<pc, expected, rows, report>>
        /\ pin' = report.head_hash /\ pinned' = rows /\ Verified
    BY <1>5 DEF Pin, verifier, Verified, ExitCode
  <2> QED
    BY <1>0, <2>1 DEF PinInv, Verified
<1> QED
  BY <1>1, <1>2, <1>3, <1>4, <1>5 DEF Next, Verify

LEMMA InitPin == Init => PinInv
<1>1. DOMAIN <<>> = {}
  OBVIOUS
<1> QED
  BY <1>1, FS_EmptySet DEF Init, PinInv, Verified

\* Whatever is done to the table, hashes computed again included, and
\* whenever: a log that verifies against a kept head has the rows it had
\* when the head was taken, and no others.
THEOREM Spec_VerifiedAgainstPinIsPinned == Spec => []VerifiedAgainstPinIsPinned
<1>1. PinInv => VerifiedAgainstPinIsPinned
  <2> SUFFICES ASSUME PinInv, Verified, pin # None, expected = pin
               PROVE  SameRows(rows, pinned)
    BY DEF VerifiedAgainstPinIsPinned
  <2>1. GoodChain(rows) /\ GoodChain(pinned) /\ HeadHash(rows) = HeadHash(pinned)
    BY DEF PinInv
  <2> QED
    BY <2>1, SameHeadSameRows
<1> QED
  BY <1>1, InitPin, StepPin, PTL DEF Spec

-----------------------------------------------------------------------------
(***************************************************************************)
(* The table, and the types.                                               *)
(***************************************************************************)

BlobRecord(blob) ==
    /\ blob = [field \in {"sequence", "prev_hash", "body", "row_hash"} |-> blob[field]]
    /\ blob.sequence \in Nat

StoredRecord(row) ==
    /\ row = [field \in {"blob", "prev_hash", "row_hash"} |-> row[field]]
    /\ row.blob # Garbled => BlobRecord(row.blob)

TableInv ==
    /\ TypeOK
    /\ IsFiniteSet(damage)
    /\ stored = [s \in DOMAIN stored |-> stored[s]]
    /\ \A s \in DOMAIN stored : StoredRecord(stored[s])
    /\ pc \in {"attribute", "compare"} => seen \in {None, damage}

LEMMA TableIsFinite ==
    ASSUME TypeOK
    PROVE  /\ IsFiniteSet(DOMAIN stored) /\ DOMAIN stored \subseteq Nat
           /\ RowCount \in Nat
<1>1. IsFiniteSet(0 .. MaxRows - 1)
  BY BoundsAssumption, FS_Interval
<1>2. DOMAIN stored \subseteq 0 .. MaxRows - 1
  BY DEF TypeOK
<1>3. IsFiniteSet(DOMAIN stored)
  BY <1>1, <1>2, FS_Subset
<1> QED
  BY <1>2, <1>3, FS_CardinalityType DEF RowCount

\* A finite set of numbers has a k-th element: each has as many elements up to
\* it as no other, so all counts occur.
LEMMA EachRankIsTaken ==
    ASSUME NEW S \in SUBSET Nat, IsFiniteSet(S), NEW k \in 1 .. Cardinality(S)
    PROVE  \E s \in S : Cardinality({t \in S : t <= s}) = k
<1> DEFINE UpTo(s) == {t \in S : t <= s}
           T == 1 .. Cardinality(S)
           rank == [s \in S |-> Cardinality(UpTo(s))]
<1>1. Cardinality(S) \in Nat
  BY FS_CardinalityType
<1>2. IsFiniteSet(T) /\ Cardinality(T) = Cardinality(S)
  BY <1>1, FS_Interval
<1>3. ASSUME NEW s \in S
      PROVE  IsFiniteSet(UpTo(s)) /\ Cardinality(UpTo(s)) \in T
  <2>1. UpTo(s) \in SUBSET S /\ s \in UpTo(s)
    OBVIOUS
  <2>2. IsFiniteSet(UpTo(s)) /\ Cardinality(UpTo(s)) <= Cardinality(S)
    BY <2>1, FS_Subset
  <2>3. Cardinality(UpTo(s)) \in Nat /\ Cardinality(UpTo(s)) # 0
    BY <2>1, <2>2, FS_CardinalityType, FS_EmptySet
  <2> HIDE DEF UpTo
  <2> QED
    BY <1>1, <2>2, <2>3
<1>4. ASSUME NEW s \in S, NEW u \in S, s < u
      PROVE  Cardinality(UpTo(s)) # Cardinality(UpTo(u))
  <2>1. s \in Nat /\ u \in Nat /\ \A t \in S : t \in Nat
    OBVIOUS
  <2>2. \A t \in S : t <= s => t <= u
    BY <1>4, <2>1
  <2>3. UpTo(s) \in SUBSET UpTo(u)
    BY <2>2
  <2>4. u \in UpTo(u) /\ u \notin UpTo(s)
    BY <1>4, <2>1
  <2> HIDE DEF UpTo
  <2> QED
    BY <1>3, <2>3, <2>4, FS_Subset
<1>5. rank \in [S -> T]
  BY <1>3
<1>6. \A s, u \in S : rank[s] = rank[u] => s = u
  <2> SUFFICES ASSUME NEW s \in S, NEW u \in S, rank[s] = rank[u], s # u
               PROVE  FALSE
    OBVIOUS
  <2>1. s < u \/ u < s
    OBVIOUS
  <2> HIDE DEF UpTo
  <2> QED
    BY <1>4, <2>1
<1> HIDE DEF T, rank
<1>7. rank \in Injection(S, T)
  BY <1>5, <1>6 DEF Injection, IsInjective
<1>8. rank \in Surjection(S, T)
  BY <1>2, <1>7, FS_Injection
<1>9. PICK s \in S : rank[s] = k
  BY <1>8 DEF Surjection, T
<1> QED
  BY <1>9 DEF rank

LEMMA ColumnIsInTable ==
    ASSUME TypeOK, NEW k \in 1 .. RowCount
    PROVE  /\ Column(k) \in DOMAIN stored
           /\ Cardinality({t \in DOMAIN stored : t <= Column(k)}) = k
<1> DEFINE S == DOMAIN stored
<1>1. S \in SUBSET Nat /\ IsFiniteSet(S) /\ k \in 1 .. Cardinality(S)
  BY TableIsFinite DEF RowCount
<1> HIDE DEF S
<1>2. \E s \in S : Cardinality({t \in S : t <= s}) = k
  BY <1>1, EachRankIsTaken
<1> QED
  BY <1>2 DEF Column, S

LEMMA LastColumnIsInTable ==
    ASSUME TypeOK, DOMAIN stored # {}
    PROVE  LastColumn \in DOMAIN stored /\ \A t \in DOMAIN stored : t <= LastColumn
<1>1. RowCount \in Nat \ {0} /\ IsFiniteSet(DOMAIN stored)
  BY TableIsFinite, FS_EmptySet DEF RowCount
<1>2. PICK s \in DOMAIN stored : Cardinality({t \in DOMAIN stored : t <= s}) = RowCount
  <2>1. RowCount \in 1 .. RowCount
    BY <1>1
  <2>2. Column(RowCount) \in DOMAIN stored
        /\ Cardinality({t \in DOMAIN stored : t <= Column(RowCount)}) = RowCount
    BY <2>1, ColumnIsInTable
  <2> QED
    BY <2>2
<1>3. {t \in DOMAIN stored : t <= s} = DOMAIN stored
  <2> DEFINE upTo == {t \in DOMAIN stored : t <= s}
  <2>1. upTo \in SUBSET DOMAIN stored
    OBVIOUS
  <2> HIDE DEF upTo
  <2>2. Cardinality(DOMAIN stored) = Cardinality(upTo)
    BY <1>2 DEF upTo, RowCount
  <2>3. DOMAIN stored = upTo
    BY <1>1, <2>1, <2>2, FS_Subset
  <2> QED
    BY <2>3 DEF upTo
<1>4. \A t \in DOMAIN stored : t <= s
  BY <1>3
<1> QED
  BY <1>4 DEF LastColumn

-----------------------------------------------------------------------------

\* The row the application would add is well formed.
LEMMA AppendedRow ==
    ASSUME TableInv, NEW body \in Body, Append_(body)
    PROVE  LET row == NextRow(TailBlob, body)
           IN  /\ row.sequence \in 0 .. MaxRows - 1
               /\ row = [sequence |-> row.sequence, prev_hash |-> row.prev_hash,
                         body |-> row.body]
<1> DEFINE row == NextRow(TailBlob, body)
<1>1. row.sequence \in Nat
  <2>1. CASE TailBlob = Absent
    BY <2>1 DEF NextRow
  <2>2. CASE TailBlob # Absent
    <3>1. stored # <<>> /\ TailBlob = stored[LastColumn].blob /\ TailBlob # Garbled
      BY <2>2 DEF TailBlob, Append_, Parses, IsAuditRow
    <3>2. DOMAIN stored # {}
      BY <3>1 DEF TableInv
    <3>3. BlobRecord(TailBlob)
      BY <3>1, <3>2, LastColumnIsInTable DEF TableInv, StoredRecord
    <3> QED
      BY <2>2, <3>3 DEF NextRow, BlobRecord
  <2> QED
    BY <2>1, <2>2
<1>2. row.sequence < MaxRows
  BY DEF Append_
<1>3. row.sequence \in 0 .. MaxRows - 1
  BY <1>1, <1>2, BoundsAssumption
<1>4. row = [sequence |-> row.sequence, prev_hash |-> row.prev_hash, body |-> row.body]
  BY DEF NextRow
<1> QED
  BY <1>3, <1>4

LEMMA StoredRowIsRecord ==
    ASSUME NEW row, row.sequence \in Nat
    PROVE  StoredRecord(StoredRow(row))
BY DEF StoredRecord, StoredRow, BlobRecord

LEMMA DamageIsCounted ==
    ASSUME TableInv, NEW statement, NEW s, Damage(statement, s)
    PROVE  /\ IsFiniteSet(damage') /\ Cardinality(damage') <= MaxDamage
           /\ damage \subseteq damage' /\ damage' # {} /\ <<statement, s>> \in damage'
           /\ seen' = None \/ (pc \notin {"attribute", "compare"} /\ seen' = seen)
           /\ seen' = None \/ seen' \subseteq damage'
           /\ UNCHANGED <<written, pin, pinned, pc, expected, rows, report>>
<1>1. /\ damage' = damage \cup {<<statement, s>>} /\ <<statement, s>> \notin damage
      /\ Cardinality(damage) < MaxDamage /\ IsFiniteSet(damage)
      /\ seen = None \/ seen \subseteq damage
      /\ seen' = IF pc \in {"attribute", "compare"} THEN None ELSE seen
      /\ UNCHANGED <<written, pin, pinned, pc, expected, rows, report>>
  BY DEF Damage, TableInv, TypeOK, verifier
<1>2. IsFiniteSet(damage') /\ Cardinality(damage') = Cardinality(damage) + 1
  BY <1>1, FS_AddElement
<1>3. Cardinality(damage) \in Nat
  BY <1>1, FS_CardinalityType
<1> QED
  BY <1>1, <1>2, <1>3, BoundsAssumption

\* A damaging statement keeps the table a table.
LEMMA DamageKeepsTable ==
    ASSUME TableInv, NEW statement, NEW s, Damage(statement, s),
           DOMAIN stored' \subseteq 0 .. MaxRows - 1, dropped' \in BOOLEAN,
           stored' = [t \in DOMAIN stored' |-> stored'[t]],
           \A t \in DOMAIN stored' : StoredRecord(stored'[t])
    PROVE  TableInv'
<1>1. TypeOK'
  BY DamageIsCounted DEF TableInv, TypeOK
<1> QED
  BY <1>1, DamageIsCounted DEF TableInv, StoredRecord, BlobRecord, Garbled

LEMMA InitTable == Init => TableInv
<1> SUFFICES ASSUME Init PROVE TableInv
  OBVIOUS
<1>1. stored = <<>> /\ DOMAIN stored = {} /\ damage = {} /\ seen = {} /\ pc = "idle"
      /\ dropped = FALSE
  BY DEF Init
<1>2. IsFiniteSet(damage) /\ Cardinality(damage) <= MaxDamage
  BY <1>1, FS_EmptySet, BoundsAssumption
<1>3. stored = [s \in DOMAIN stored |-> stored[s]]
  BY <1>1
<1> QED
  BY <1>1, <1>2, <1>3 DEF TableInv, TypeOK

\* The verifier answers with a kind of its own.
LEMMA CheckChainAnswers ==
    ASSUME NEW chain, NEW head, CheckChain(chain, head)
    PROVE  \/ pc' = "compare"
           \/ pc' = "done" /\ report'.kind \in ChainFailureKind
BY DEF CheckChain, ChainIsInvalid, Answer, ChainFailureKind

LEMMA StepTable == TableInv /\ [Next]_vars => TableInv'
<1> SUFFICES ASSUME TableInv, [Next]_vars PROVE TableInv'
  OBVIOUS
<1>0. /\ stored = [s \in DOMAIN stored |-> stored[s]]
      /\ DOMAIN stored \subseteq 0 .. MaxRows - 1 /\ dropped \in BOOLEAN
      /\ \A s \in DOMAIN stored : StoredRecord(stored[s])
  BY DEF TableInv, TypeOK
<1>1. CASE UNCHANGED vars
  BY <1>1 DEF vars, log, verifier, TableInv, TypeOK, StoredRecord, BlobRecord, Garbled
<1>2. ASSUME NEW body \in Body, Append_(body) PROVE TableInv'
  <2> DEFINE row == NextRow(TailBlob, body)
  <2>1. row.sequence \in 0 .. MaxRows - 1
    BY <1>2, AppendedRow
  <2>2. /\ stored' = [s \in DOMAIN stored \cup {row.sequence} |->
                        IF s = row.sequence THEN StoredRow(row) ELSE stored[s]]
        /\ UNCHANGED <<dropped, damage, seen, pc, report>>
    BY <1>2 DEF Append_, verifier
  <2>3. StoredRecord(StoredRow(row))
    BY <2>1, StoredRowIsRecord
  <2> HIDE DEF row
  <2>4. DOMAIN stored' \subseteq 0 .. MaxRows - 1
    BY <1>0, <2>1, <2>2
  <2>5. stored' = [s \in DOMAIN stored' |-> stored'[s]]
    BY <2>2
  <2>6. \A s \in DOMAIN stored' : StoredRecord(stored'[s])
    BY <1>0, <2>2, <2>3
  <2>7. TypeOK'
    BY <2>2, <2>4 DEF TableInv, TypeOK
  <2> QED
    BY <2>2, <2>5, <2>6, <2>7 DEF TableInv, StoredRecord, BlobRecord, Garbled
<1>3. ASSUME NEW s \in DOMAIN stored, NEW statement, NEW blob,
             Damage(statement, s), SetBlob(s, blob),
             blob # Garbled => BlobRecord(blob)
      PROVE  TableInv'
  <2>1. stored' = [stored EXCEPT ![s].blob = blob] /\ dropped' = dropped
    BY <1>3 DEF SetBlob
  <2>2. DOMAIN stored' = DOMAIN stored /\ stored' = [t \in DOMAIN stored' |-> stored'[t]]
    BY <2>1
  <2>3. ASSUME NEW t \in DOMAIN stored' PROVE StoredRecord(stored'[t])
    <3>1. CASE t # s
      BY <1>0, <2>1, <2>2, <3>1
    <3>2. CASE t = s
      <4>1. stored'[t] = [stored[s] EXCEPT !.blob = blob]
        BY <1>0, <2>1, <3>2
      <4>2. StoredRecord(stored[s])
        BY <1>0
      <4> QED
        BY <1>3, <4>1, <4>2 DEF StoredRecord
    <3> QED
      BY <3>1, <3>2
  <2> QED
    BY <1>0, <1>3, <2>1, <2>2, <2>3, DamageKeepsTable
<1>4. ASSUME NEW s \in DOMAIN stored, Garble(s) PROVE TableInv'
  BY <1>3, <1>4 DEF Garble
<1>5. ASSUME NEW s \in DOMAIN stored, EditBlob(s) PROVE TableInv'
  <2> DEFINE blob == stored[s].blob
  <2>1. BlobRecord(blob)
    BY <1>0, <1>5 DEF EditBlob, StoredRecord
  <2>2. ASSUME NEW new, BlobRecord(new), NEW statement, NEW forgery,
               Edit(s, statement, forgery, new)
        PROVE  TableInv'
    <3>1. BlobRecord(Forged(new))
      BY <2>2 DEF BlobRecord, Forged
    <3> QED
      BY <1>3, <2>2, <3>1 DEF Edit
  <2>3. ASSUME NEW body PROVE BlobRecord([blob EXCEPT !.body = body])
    BY <2>1 DEF BlobRecord
  <2>4. ASSUME NEW n \in 0 .. MaxRows - 1 PROVE BlobRecord([blob EXCEPT !.sequence = n])
    BY <2>1, BoundsAssumption DEF BlobRecord
  <2>5. ASSUME NEW hash PROVE BlobRecord([blob EXCEPT !.prev_hash = hash])
    BY <2>1 DEF BlobRecord
  <2>6. BlobRecord([blob EXCEPT !.row_hash = Absent])
    BY <2>1 DEF BlobRecord
  <2> QED
    BY <1>3, <1>5, <2>2, <2>3, <2>4, <2>5, <2>6 DEF EditBlob
<1>6. ASSUME NEW s \in DOMAIN stored, EditColumn(s) PROVE TableInv'
  <2>1. PICK hash \in KnownHash :
            /\ Damage("column", s) /\ dropped' = dropped
            /\ \/ stored' = [stored EXCEPT ![s].prev_hash = hash]
               \/ stored' = [stored EXCEPT ![s].row_hash = hash]
    BY <1>6 DEF EditColumn
  <2>2. DOMAIN stored' = DOMAIN stored /\ stored' = [t \in DOMAIN stored' |-> stored'[t]]
    BY <2>1
  <2>3. ASSUME NEW t \in DOMAIN stored' PROVE StoredRecord(stored'[t])
    <3>1. CASE t # s
      BY <1>0, <2>1, <2>2, <3>1
    <3>2. CASE t = s
      <4>1. \/ stored'[t] = [stored[s] EXCEPT !.prev_hash = hash]
            \/ stored'[t] = [stored[s] EXCEPT !.row_hash = hash]
        BY <1>0, <2>1, <3>2
      <4>2. StoredRecord(stored[s])
        BY <1>0
      <4> QED
        BY <4>1, <4>2 DEF StoredRecord
    <3> QED
      BY <3>1, <3>2
  <2> QED
    BY <1>0, <2>1, <2>2, <2>3, DamageKeepsTable
<1>7. ASSUME NEW s \in DOMAIN stored, Delete(s) PROVE TableInv'
  <2>1. /\ Damage("delete", s) /\ dropped' = dropped
        /\ stored' = [t \in DOMAIN stored \ {s} |-> stored[t]]
    BY <1>7 DEF Delete
  <2>2. /\ DOMAIN stored' \subseteq DOMAIN stored
        /\ stored' = [t \in DOMAIN stored' |-> stored'[t]]
        /\ \A t \in DOMAIN stored' : StoredRecord(stored'[t])
    BY <1>0, <2>1
  <2> QED
    BY <1>0, <2>1, <2>2, DamageKeepsTable
<1>8. ASSUME NEW s \in DOMAIN stored, Move(s) PROVE TableInv'
  <2>1. PICK t \in (0 .. MaxRows - 1) \ DOMAIN stored :
            /\ Damage("move", <<s, t>>) /\ dropped' = dropped
            /\ stored' = [u \in (DOMAIN stored \ {s}) \cup {t} |->
                            IF u = t THEN stored[s] ELSE stored[u]]
    BY <1>8 DEF Move
  <2>2. /\ DOMAIN stored' \subseteq 0 .. MaxRows - 1
        /\ stored' = [u \in DOMAIN stored' |-> stored'[u]]
        /\ \A u \in DOMAIN stored' : StoredRecord(stored'[u])
    BY <1>0, <2>1
  <2> QED
    BY <1>0, <2>1, <2>2, DamageKeepsTable
<1>9. ASSUME NEW s \in DOMAIN stored, Rewrite(s) PROVE TableInv'
  <2>1. PICK row : /\ Damage("rewrite", s) /\ dropped' = dropped
                   /\ stored' = [t \in DOMAIN stored |-> StoredRow(row[t])]
                   /\ \A t \in DOMAIN stored : row[t].sequence = t
    <3>1. PICK body \in Body :
            LET Rewritten(t, link) ==
                    [sequence |-> t, prev_hash |-> link,
                     body |-> IF t = s THEN body ELSE stored[t].blob.body]
                link[t \in DOMAIN stored] ==
                    IF t = 0 THEN Genesis ELSE Hash(Rewritten(t - 1, link[t - 1]))
            IN  /\ Damage("rewrite", s) /\ dropped' = dropped
                /\ stored' = [t \in DOMAIN stored |-> StoredRow(Rewritten(t, link[t]))]
      BY <1>9 DEF Rewrite
    <3> DEFINE Rewritten(t, link) ==
                    [sequence |-> t, prev_hash |-> link,
                     body |-> IF t = s THEN body ELSE stored[t].blob.body]
               link[t \in DOMAIN stored] ==
                    IF t = 0 THEN Genesis ELSE Hash(Rewritten(t - 1, link[t - 1]))
               row == [t \in DOMAIN stored |-> Rewritten(t, link[t])]
    <3>2. /\ Damage("rewrite", s) /\ dropped' = dropped
          /\ stored' = [t \in DOMAIN stored |-> StoredRow(Rewritten(t, link[t]))]
      BY <3>1
    <3> HIDE DEF link
    <3>3. \A t \in DOMAIN stored : row[t] = Rewritten(t, link[t]) /\ row[t].sequence = t
      OBVIOUS
    <3> HIDE DEF row, Rewritten
    <3>4. stored' = [t \in DOMAIN stored |-> StoredRow(row[t])]
      BY <3>2, <3>3
    <3> QED
      BY <3>2, <3>3, <3>4
  <2>2. /\ DOMAIN stored' = DOMAIN stored
        /\ stored' = [t \in DOMAIN stored' |-> stored'[t]]
    BY <2>1
  <2>3. ASSUME NEW t \in DOMAIN stored' PROVE StoredRecord(stored'[t])
    <3>1. row[t].sequence \in Nat /\ stored'[t] = StoredRow(row[t])
      BY <1>0, <2>1, <2>2, BoundsAssumption
    <3> QED
      BY <3>1, StoredRowIsRecord
  <2> QED
    BY <1>0, <2>1, <2>2, <2>3, DamageKeepsTable
<1>10. CASE DropTable
  <2>1. Damage("drop", None) /\ stored' = <<>> /\ dropped' = TRUE
    BY <1>10 DEF DropTable
  <2>2. DOMAIN stored' = {} /\ stored' = [t \in DOMAIN stored' |-> stored'[t]]
    BY <2>1
  <2> QED
    BY <2>1, <2>2, DamageKeepsTable
<1>11. ASSUME UNCHANGED <<log, damage>>,
              \/ pc' = "compare" \/ pc' = "attribute"
              \/ pc' = "done" /\ report'.kind \in ChainFailureKind,
              seen' = damage \/ (pc' \notin {"attribute", "compare"} /\ seen' = seen)
       PROVE  TableInv'
  BY <1>11 DEF log, TableInv, TypeOK, StoredRecord, BlobRecord, Garbled, ChainFailureKind
<1>12. ASSUME NEW head \in {None, pin}, ReadAll(head) PROVE TableInv'
  <2>1. UNCHANGED <<log, damage>> /\ seen' = damage
    BY <1>12 DEF ReadAll
  <2>2. \/ pc' = "compare" \/ pc' = "attribute"
        \/ pc' = "done" /\ report'.kind \in ChainFailureKind
    BY <1>12, CheckChainAnswers DEF ReadAll, Answer, ChainFailureKind
  <2> QED
    BY <1>11, <2>1, <2>2
<1>13. CASE AttributeReadFailure \/ CompareColumns
  <2>1. UNCHANGED <<log, damage, seen>>
    BY <1>13 DEF AttributeReadFailure, CompareColumns
  <2>2. pc' = "done" /\ report'.kind \in ChainFailureKind
    BY <1>13 DEF AttributeReadFailure, CompareColumns, Answer, KindOfUnparsed, ChainFailureKind
  <2> QED
    BY <1>11, <2>1, <2>2
<1>14. CASE Pin
  BY <1>14 DEF Pin, log, verifier, TableInv, TypeOK, StoredRecord, BlobRecord, Garbled,
               ChainFailureKind
<1> QED
  BY <1>1, <1>2, <1>4, <1>5, <1>6, <1>7, <1>8, <1>9, <1>10, <1>12, <1>13, <1>14
  DEF Next, DamageTable, Verify

\* The table stays within its columns and the damage within its bound, and
\* every report has one of the verifier's kinds.
THEOREM AuditTypeCorrect == Spec => []TypeOK
<1>1. TableInv => TypeOK
  BY DEF TableInv
<1> QED
  BY <1>1, InitTable, StepTable, PTL DEF Spec

-----------------------------------------------------------------------------
(***************************************************************************)
(* Nothing is forged: the row_hash column of every row stored is a hash    *)
(* the application computed, unless all were computed again, and the       *)
(* verifier compares every row it read with that column.                   *)
(***************************************************************************)

NoRewrite(statements) == \A d \in statements : d[1] # "rewrite"

ForgeInv ==
    /\ TableInv
    /\ NoRewrite(damage) => \A s \in DOMAIN stored : stored[s].row_hash \in KnownHash
    /\ pc = "compare" /\ seen # None => Len(rows) \in Nat /\ Len(rows) <= RowCount
    /\ NothingIsForged

\* What one damaging statement does to the row_hash columns.
LEMMA DamageKeepsHashes ==
    ASSUME ForgeInv, DamageTable, NoRewrite(damage'), NEW s \in DOMAIN stored'
    PROVE  stored'[s].row_hash \in KnownHash'
<1>0. /\ stored = [t \in DOMAIN stored |-> stored[t]]
      /\ \A t \in DOMAIN stored : StoredRecord(stored[t])
  BY DEF ForgeInv, TableInv
<1>1. ASSUME NEW statement, NEW t, Damage(statement, t)
      PROVE  /\ statement # "rewrite" /\ NoRewrite(damage) /\ KnownHash' = KnownHash
             /\ \A u \in DOMAIN stored : stored[u].row_hash \in KnownHash
  <2>1. damage \subseteq damage' /\ <<statement, t>> \in damage' /\ written' = written
    BY <1>1, DamageIsCounted DEF ForgeInv
  <2>2. statement # "rewrite" /\ NoRewrite(damage)
    BY <2>1 DEF NoRewrite
  <2> QED
    BY <2>1, <2>2 DEF ForgeInv, KnownHash
<1>2. ASSUME NEW t \in DOMAIN stored, NEW statement, NEW blob,
             Damage(statement, t), SetBlob(t, blob)
      PROVE  stored'[s].row_hash \in KnownHash'
  <2>1. stored' = [stored EXCEPT ![t].blob = blob]
    BY <1>2 DEF SetBlob
  <2>2. s \in DOMAIN stored /\ stored'[s].row_hash = stored[s].row_hash
    BY <1>0, <2>1 DEF StoredRecord
  <2> QED
    BY <1>1, <1>2, <2>2
<1>3. ASSUME NEW t \in DOMAIN stored, Garble(t) \/ EditBlob(t)
      PROVE  stored'[s].row_hash \in KnownHash'
  BY <1>2, <1>3 DEF Garble, EditBlob, Edit
<1>4. ASSUME NEW t \in DOMAIN stored, EditColumn(t) PROVE stored'[s].row_hash \in KnownHash'
  <2>1. PICK hash \in KnownHash :
            /\ Damage("column", t)
            /\ \/ stored' = [stored EXCEPT ![t].prev_hash = hash]
               \/ stored' = [stored EXCEPT ![t].row_hash = hash]
    BY <1>4 DEF EditColumn
  <2>2. s \in DOMAIN stored /\ stored'[s].row_hash \in {stored[s].row_hash, hash}
    BY <1>0, <2>1 DEF StoredRecord
  <2> QED
    BY <1>1, <2>1, <2>2
<1>5. ASSUME NEW t \in DOMAIN stored, Delete(t) PROVE stored'[s].row_hash \in KnownHash'
  <2>1. Damage("delete", t) /\ s \in DOMAIN stored /\ stored'[s] = stored[s]
    BY <1>5 DEF Delete
  <2> QED
    BY <1>1, <2>1
<1>6. ASSUME NEW t \in DOMAIN stored, Move(t) PROVE stored'[s].row_hash \in KnownHash'
  <2>1. /\ \E to : Damage("move", <<t, to>>)
        /\ \E u \in DOMAIN stored : stored'[s] = stored[u]
    BY <1>6 DEF Move
  <2> QED
    BY <1>1, <2>1
<1>7. ASSUME NEW t \in DOMAIN stored, Rewrite(t) PROVE FALSE
  <2>1. Damage("rewrite", t)
    BY <1>7 DEF Rewrite
  <2> QED
    BY <1>1, <2>1
<1>8. ~DropTable
  <2>1. DropTable => DOMAIN stored' = {}
    BY DEF DropTable
  <2> QED
    BY <2>1
<1> QED
  BY <1>3, <1>4, <1>5, <1>6, <1>7, <1>8 DEF DamageTable

\* A damaging statement during a verification is known for one.
LEMMA DamageIsSeen ==
    ASSUME ForgeInv, DamageTable
    PROVE  /\ seen' = None \/ (pc # "compare" /\ seen' = seen)
           /\ UNCHANGED <<written, pinned, pc, expected, rows, report>>
<1>1. PICK statement, s : Damage(statement, s)
  BY DEF DamageTable, DropTable, Garble, EditBlob, Edit, EditColumn, Delete, Move, Rewrite
<1> QED
  BY <1>1, DamageIsCounted DEF ForgeInv

\* A hash of a row is no Genesis.
LEMMA KnownHashIsWritten ==
    ASSUME NEW r, Hash(r) \in KnownHash
    PROVE  \E row \in written : SameRow(r, row)
<1>1. Hash(r) # Genesis
  BY DEF Hash, Genesis
<1>2. PICK row \in written : Hash(r) = Hash(row)
  BY <1>1 DEF KnownHash
<1> QED
  BY <1>2, HashIsInjective

LEMMA StepForge == ForgeInv /\ [Next]_vars => ForgeInv'
<1> SUFFICES ASSUME ForgeInv, [Next]_vars PROVE ForgeInv'
  OBVIOUS
<1>0. TableInv /\ TableInv'
  BY StepTable DEF ForgeInv
<1>1. CASE UNCHANGED vars
  <2>1. UNCHANGED <<stored, damage, written, seen, pc, rows, report>>
    BY <1>1 DEF vars, log, verifier
  <2>2. RowCount' = RowCount /\ KnownHash' = KnownHash
    BY <2>1 DEF RowCount, KnownHash
  <2>3. NothingIsForged'
    BY <2>1 DEF ForgeInv, NothingIsForged, Verified, SameRow
  <2> QED
    BY <1>0, <2>1, <2>2, <2>3 DEF ForgeInv
<1>2. ASSUME NEW body \in Body, Append_(body) PROVE ForgeInv'
  <2> DEFINE row == NextRow(TailBlob, body)
  <2>1. /\ stored' = [s \in DOMAIN stored \cup {row.sequence} |->
                        IF s = row.sequence THEN StoredRow(row) ELSE stored[s]]
        /\ row.sequence \notin DOMAIN stored
        /\ written' = written \cup {row}
        /\ UNCHANGED <<damage, seen, pc, rows, report>>
    BY <1>2 DEF Append_, verifier
  <2> HIDE DEF row
  <2>2. KnownHash \subseteq KnownHash' /\ Hash(row) \in KnownHash'
    BY <2>1 DEF KnownHash
  <2>3. NoRewrite(damage') => \A s \in DOMAIN stored' : stored'[s].row_hash \in KnownHash'
    <3> SUFFICES ASSUME NoRewrite(damage), NEW s \in DOMAIN stored'
                 PROVE  stored'[s].row_hash \in KnownHash'
      BY <2>1
    <3>1. CASE s = row.sequence
      <4>1. stored'[s] = StoredRow(row)
        BY <2>1, <3>1
      <4> QED
        BY <2>2, <4>1 DEF StoredRow
    <3>2. CASE s # row.sequence
      <4>1. s \in DOMAIN stored /\ stored'[s] = stored[s]
        BY <2>1, <3>2
      <4> QED
        BY <2>2, <4>1 DEF ForgeInv
    <3> QED
      BY <3>1, <3>2
  <2>4. RowCount \in Nat /\ RowCount' = RowCount + 1
    <3>1. DOMAIN stored' = DOMAIN stored \cup {row.sequence}
      BY <2>1
    <3>2. IsFiniteSet(DOMAIN stored) /\ RowCount \in Nat
      BY <1>0, TableIsFinite DEF TableInv
    <3>3. Cardinality(DOMAIN stored \cup {row.sequence}) = Cardinality(DOMAIN stored) + 1
      BY <2>1, <3>2, FS_AddElement
    <3> QED
      BY <3>1, <3>2, <3>3 DEF RowCount
  <2>5. NothingIsForged'
    BY <2>1 DEF ForgeInv, NothingIsForged, Verified, SameRow
  <2>6. pc' = "compare" /\ seen' # None => Len(rows') \in Nat /\ Len(rows') <= RowCount'
    BY <2>1, <2>4 DEF ForgeInv
  <2> QED
    BY <1>0, <2>3, <2>5, <2>6 DEF ForgeInv
<1>3. CASE DamageTable
  <2>1. /\ seen' = None \/ (pc # "compare" /\ seen' = seen)
        /\ UNCHANGED <<written, pc, rows, report>>
    BY <1>3, DamageIsSeen
  <2>2. NoRewrite(damage') => \A s \in DOMAIN stored' : stored'[s].row_hash \in KnownHash'
    BY <1>3, DamageKeepsHashes
  <2>3. NothingIsForged'
    BY <2>1 DEF ForgeInv, NothingIsForged, Verified, SameRow
  <2> QED
    BY <1>0, <2>1, <2>2, <2>3 DEF ForgeInv
<1>4. ASSUME UNCHANGED <<log, damage>>, ~Verified',
             pc' = "compare" => rows' = AllRows
      PROVE  ForgeInv'
  <2>1. RowCount' = RowCount /\ KnownHash' = KnownHash /\ UNCHANGED <<stored, damage>>
    BY <1>4 DEF RowCount, KnownHash, log
  <2>2. RowCount \in Nat
    BY <1>0, TableIsFinite DEF TableInv
  <2>3. Len(AllRows) = RowCount
    BY <2>2 DEF AllRows
  <2> QED
    BY <1>0, <1>4, <2>1, <2>2, <2>3 DEF ForgeInv, NothingIsForged
<1>5. ASSUME NEW head \in {None, pin}, ReadAll(head) PROVE ForgeInv'
  <2>1. UNCHANGED <<log, damage>>
    BY <1>5 DEF ReadAll
  <2>2. ~Verified' /\ (pc' = "compare" => rows' = AllRows)
    <3>1. CASE rows' = AllRows /\ CheckChain(AllRows, head)
      <4>1. Len(AllRows) \in Nat /\ (Len(AllRows) = 0 => AllRows = <<>>)
        BY <1>0, TableIsFinite, AllRowsIsASequence DEF TableInv
      <4> QED
        BY <3>1, <4>1, CheckChainLetsGoodThrough
    <3>2. CASE Answer("chain_unreadable", 0, None, None)
      BY <3>2, AnswerOfAnotherKind DEF ChainFailureKind
    <3>3. CASE pc' = "attribute"
      BY <3>3 DEF Verified
    <3> QED
      BY <1>5, <3>1, <3>2, <3>3 DEF ReadAll
  <2> QED
    BY <1>4, <2>1, <2>2
<1>6. CASE AttributeReadFailure
  <2>1. PICK kind, checked, bad :
            kind \in ChainFailureKind \ {"none"} /\ Answer(kind, checked, bad, None)
    BY <1>6 DEF AttributeReadFailure, KindOfUnparsed, ChainFailureKind
  <2>2. pc' # "compare" /\ ~Verified' /\ UNCHANGED <<log, damage>>
    BY <1>6, <2>1, AnswerOfAnotherKind DEF AttributeReadFailure
  <2> QED
    BY <1>4, <2>2
<1>7. CASE CompareColumns
  <2>1. /\ UNCHANGED <<log, damage, seen, rows>> /\ pc = "compare"
    BY <1>7 DEF CompareColumns
  <2>2. CASE ~Verified'
    <3>1. pc' # "compare"
      BY <1>7 DEF CompareColumns, Answer
    <3> QED
      BY <1>4, <2>1, <2>2, <3>1
  <2>3. CASE Verified'
    <3>1. Divergences(rows) = {} /\ pc' = "done"
      <4>1. CASE \E checked, bad : Answer("column_mismatch", checked, bad, None)
        BY <2>3, <4>1, AnswerOfAnotherKind DEF ChainFailureKind
      <4>2. CASE Answer("chain_unreadable", 0, None, None)
        BY <2>3, <4>2, AnswerOfAnotherKind DEF ChainFailureKind
      <4> QED
        BY <1>7, <4>1, <4>2 DEF CompareColumns, Answer
    <3>2. NothingIsForged'
      <4> SUFFICES ASSUME seen # None, NoRewrite(seen), NEW i \in 1 .. Len(rows)
                   PROVE  \E row \in written : SameRow(rows[i], row)
        BY <2>1 DEF NothingIsForged, NoRewrite, log, SameRow
      <4>1. seen = damage
        BY <1>0, <2>1 DEF TableInv
      <4>2. Len(rows) \in Nat /\ Len(rows) <= RowCount /\ RowCount \in Nat
        BY <1>0, <2>1, TableIsFinite DEF ForgeInv, TableInv
      <4>3. i \in 1 .. RowCount
        BY <4>2
      <4>4. Column(i) \in DOMAIN stored
        BY <1>0, <4>3, ColumnIsInTable DEF TableInv
      <4>5. stored[Column(i)].row_hash = Hash(rows[i])
        BY <3>1, <4>2, <4>3 DEF Divergences
      <4>6. Hash(rows[i]) \in KnownHash
        BY <4>1, <4>4, <4>5 DEF ForgeInv
      <4> QED
        BY <4>6, KnownHashIsWritten
    <3>3. RowCount' = RowCount /\ KnownHash' = KnownHash /\ UNCHANGED stored
      BY <2>1 DEF RowCount, KnownHash, log
    <3> QED
      BY <1>0, <2>1, <3>1, <3>2, <3>3 DEF ForgeInv
  <2> QED
    BY <2>2, <2>3
<1>8. CASE Pin
  <2>1. UNCHANGED <<stored, damage, written, seen, pc, rows, report>>
    BY <1>8 DEF Pin, log, verifier
  <2>2. RowCount' = RowCount /\ KnownHash' = KnownHash
    BY <2>1 DEF RowCount, KnownHash
  <2>3. NothingIsForged'
    BY <2>1 DEF ForgeInv, NothingIsForged, Verified, SameRow
  <2> QED
    BY <1>0, <2>1, <2>2, <2>3 DEF ForgeInv
<1> QED
  BY <1>1, <1>2, <1>3, <1>5, <1>6, <1>7, <1>8 DEF Next, Verify

LEMMA InitForge == Init => ForgeInv
<1> SUFFICES ASSUME Init PROVE ForgeInv
  OBVIOUS
<1>1. DOMAIN stored = {} /\ pc = "idle"
  BY DEF Init
<1> QED
  BY <1>1, InitTable DEF ForgeInv, NothingIsForged, Verified

\* Whatever statement damages the table, a verified log holds only rows the
\* application wrote, unless every hash from one row on was computed again.
THEOREM NothingIsForgedAlways == Spec => []NothingIsForged
<1>1. ForgeInv => NothingIsForged
  BY DEF ForgeInv
<1> QED
  BY <1>1, InitForge, StepForge, PTL DEF Spec

-----------------------------------------------------------------------------
(***************************************************************************)
(* No false alarms: until a statement damages it, the table holds the      *)
(* chain the application wrote, and what was read or pinned is the         *)
(* beginning of it.                                                        *)
(***************************************************************************)

LogIsIntact ==
    /\ ~dropped
    /\ DOMAIN stored = 0 .. RowCount - 1
    /\ \A s \in DOMAIN stored :
        LET blob == stored[s].blob
        IN  /\ stored[s] = StoredRow(blob)
            /\ blob.sequence = s
            /\ blob.prev_hash = IF s = 0 THEN Genesis ELSE Hash(stored[s - 1].blob)

BeginsLog(chain) ==
    /\ Len(chain) \in Nat /\ Len(chain) <= RowCount
    /\ \A i \in 1 .. Len(chain) : SameRow(chain[i], stored[i - 1].blob)

CleanInv ==
    /\ TableInv /\ PinInv
    /\ damage = {} => LogIsIntact
    /\ damage = {} /\ pin # None => BeginsLog(pinned)
    /\ damage = {} /\ (pc = "compare" \/ Verified) => BeginsLog(rows)
    /\ pc = "attribute" => seen # {}
    /\ NoFalseAlarm

\* Where no number is missing, the k-th column is k - 1.
LEMMA DenseColumns ==
    ASSUME TypeOK, NEW n \in Nat, DOMAIN stored = 0 .. n - 1
    PROVE  RowCount = n /\ \A k \in 1 .. n : Column(k) = k - 1
<1>1. RowCount = n
  BY FS_Interval DEF RowCount
<1>2. ASSUME NEW k \in 1 .. n PROVE Column(k) = k - 1
  <2>1. PICK c \in 0 .. n - 1 : c = Column(k)
    BY <1>1, ColumnIsInTable
  <2>2. Cardinality({t \in 0 .. n - 1 : t <= c}) = k
    BY <1>1, <2>1, ColumnIsInTable
  <2>3. {t \in 0 .. n - 1 : t <= c} = 0 .. c
    OBVIOUS
  <2>4. Cardinality(0 .. c) = c + 1
    BY FS_Interval
  <2>5. k = c + 1
    BY <2>2, <2>3, <2>4
  <2> QED
    BY <2>1, <2>5
<1> QED
  BY <1>1, <1>2

LEMMA IntactColumns ==
    ASSUME TypeOK, LogIsIntact, NEW k \in 1 .. RowCount
    PROVE  Column(k) = k - 1
BY TableIsFinite, DenseColumns DEF LogIsIntact

LEMMA IntactParses ==
    ASSUME TypeOK, LogIsIntact
    PROVE  Unparsed = {}
<1> SUFFICES ASSUME NEW s \in DOMAIN stored PROVE Parses(stored[s].blob)
  BY DEF Unparsed
<1> DEFINE blob == stored[s].blob
<1>1. s \in Nat
  BY TableIsFinite
<1>2. /\ blob = StoredRow(blob).blob /\ blob.sequence = s
      /\ blob.prev_hash = IF s = 0 THEN Genesis ELSE Hash(stored[s - 1].blob)
  BY DEF LogIsIntact
<1> HIDE DEF blob
<1>3. blob.row_hash = Hash(blob)
  BY <1>2 DEF StoredRow
<1>4. blob # Garbled
  BY <1>1, <1>2, NoneAssumption DEF Garbled
<1>5. blob.sequence = 0 <=> blob.prev_hash = Genesis
  BY <1>2 DEF Genesis, Hash
<1> QED
  BY <1>3, <1>4, <1>5 DEF Parses, IsAuditRow, ClaimAgrees, blob

\* Read in one statement, the intact log is linked throughout.
LEMMA IntactRead ==
    ASSUME TypeOK, LogIsIntact
    PROVE  /\ Len(AllRows) = RowCount /\ RowCount \in Nat
           /\ BeginsLog(AllRows)
           /\ Broken(AllRows) = {}
<1>1. RowCount \in Nat
  BY TableIsFinite
<1>2. Len(AllRows) = RowCount
  BY <1>1 DEF AllRows
<1>3. \A i \in 1 .. RowCount : AllRows[i] = Contents(stored[i - 1].blob)
  BY IntactColumns DEF AllRows
<1>4. \A i \in 1 .. RowCount : SameRow(AllRows[i], stored[i - 1].blob)
  <2> SUFFICES ASSUME NEW i \in 1 .. RowCount
               PROVE  SameRow(AllRows[i], stored[i - 1].blob)
    OBVIOUS
  <2> DEFINE blob == stored[i - 1].blob
  <2>1. AllRows[i] = Contents(blob)
    BY <1>3
  <2> HIDE DEF blob
  <2> QED
    BY <2>1 DEF SameRow, Contents, blob
<1>5. ASSUME NEW i \in 1 .. RowCount PROVE Linked(AllRows, i)
  <2>1. /\ i - 1 \in DOMAIN stored
        /\ i # 1 => i - 1 \in 1 .. RowCount /\ i - 1 # 0
    BY <1>1 DEF LogIsIntact
  <2>2. /\ AllRows[i].sequence = i - 1
        /\ AllRows[i].prev_hash = IF i = 1 THEN Genesis ELSE Hash(stored[i - 2].blob)
    <3> DEFINE blob == stored[i - 1].blob
    <3>1. AllRows[i].sequence = blob.sequence /\ AllRows[i].prev_hash = blob.prev_hash
      BY <1>4 DEF SameRow
    <3>2. /\ blob.sequence = i - 1
          /\ blob.prev_hash = IF i - 1 = 0 THEN Genesis ELSE Hash(stored[(i - 1) - 1].blob)
      BY <2>1 DEF LogIsIntact
    <3> HIDE DEF blob
    <3>3. (i - 1 = 0 <=> i = 1) /\ (i - 1) - 1 = i - 2
      BY <1>1
    <3> QED
      BY <3>1, <3>2, <3>3
  <2>3. i # 1 => Hash(AllRows[i - 1]) = Hash(stored[i - 2].blob)
    BY <1>1, <1>4, <2>1 DEF SameRow, Hash
  <2> QED
    BY <2>2, <2>3 DEF Linked
<1> QED
  BY <1>1, <1>2, <1>4, <1>5 DEF BeginsLog, Broken

\* A log that was read to its end agrees with its columns.
LEMMA IntactComparison ==
    ASSUME TypeOK, LogIsIntact, NEW chain, BeginsLog(chain)
    PROVE  Divergences(chain) = {}
<1> SUFFICES ASSUME NEW k \in 1 .. Len(chain), k <= RowCount
             PROVE  /\ Column(k) = chain[k].sequence
                    /\ stored[Column(k)].prev_hash = chain[k].prev_hash
                    /\ stored[Column(k)].row_hash = Hash(chain[k])
  BY DEF Divergences
<1>1. RowCount \in Nat /\ k \in 1 .. RowCount /\ Len(chain) \in Nat
  BY TableIsFinite DEF BeginsLog
<1>2. Column(k) = k - 1 /\ k - 1 \in DOMAIN stored
  BY <1>1, IntactColumns DEF LogIsIntact
<1> DEFINE blob == stored[k - 1].blob
<1>3. stored[k - 1] = StoredRow(blob) /\ blob.sequence = k - 1
  BY <1>2 DEF LogIsIntact
<1>4. SameRow(chain[k], blob)
  BY DEF BeginsLog
<1> HIDE DEF blob
<1> QED
  BY <1>2, <1>3, <1>4 DEF StoredRow, SameRow, Hash

\* What is appended to an intact log leaves it intact, and longer.
LEMMA AppendToIntact ==
    ASSUME TableInv, LogIsIntact, NEW body \in Body, Append_(body)
    PROVE  /\ LogIsIntact' /\ RowCount \in Nat /\ RowCount' = RowCount + 1
           /\ \A s \in DOMAIN stored : stored'[s] = stored[s]
<1> DEFINE row == NextRow(TailBlob, body)
           n == RowCount
<1>1. n \in Nat /\ IsFiniteSet(DOMAIN stored) /\ DOMAIN stored = 0 .. n - 1
  BY TableIsFinite DEF TableInv, LogIsIntact
<1>2. /\ stored' = [s \in DOMAIN stored \cup {row.sequence} |->
                      IF s = row.sequence THEN StoredRow(row) ELSE stored[s]]
      /\ row.sequence \notin DOMAIN stored /\ dropped' = dropped
  BY DEF Append_
<1>3. row.sequence = n /\ row.prev_hash = IF n = 0 THEN Genesis ELSE Hash(stored[n - 1].blob)
  <2>1. CASE n = 0
    <3>1. stored = <<>>
      BY <1>1, <2>1 DEF TableInv
    <3>2. TailBlob = Absent
      BY <3>1 DEF TailBlob
    <3> QED
      BY <2>1, <3>2 DEF NextRow
  <2>2. CASE n # 0
    <3>1. n - 1 \in DOMAIN stored /\ 0 \in DOMAIN stored /\ stored # <<>>
      BY <1>1, <2>2
    <3>2. LastColumn = n - 1
      <4>1. LastColumn \in DOMAIN stored /\ n - 1 <= LastColumn
        BY <3>1, LastColumnIsInTable DEF TableInv
      <4> QED
        BY <1>1, <4>1
    <3>3. TailBlob = stored[n - 1].blob /\ stored[n - 1].blob.sequence = n - 1
      BY <3>1, <3>2 DEF TailBlob, LogIsIntact
    <3>4. TailBlob # Absent
      BY <1>2, <3>1 DEF NextRow
    <3> QED
      BY <1>1, <2>2, <3>3, <3>4 DEF NextRow
  <2> QED
    BY <2>1, <2>2
<1> HIDE DEF row
<1>4. DOMAIN stored' = DOMAIN stored \cup {n}
  BY <1>2, <1>3
<1>5. RowCount' = n + 1
  BY <1>1, <1>2, <1>3, <1>4, FS_AddElement DEF RowCount
<1>6. DOMAIN stored' = 0 .. RowCount' - 1
  BY <1>1, <1>4, <1>5
<1>7. \A s \in DOMAIN stored : stored'[s] = stored[s]
  BY <1>2
<1>8. stored'[n] = StoredRow(row)
  BY <1>2, <1>3
<1>9. ASSUME NEW s \in DOMAIN stored'
      PROVE  /\ stored'[s] = StoredRow(stored'[s].blob)
             /\ stored'[s].blob.sequence = s
             /\ stored'[s].blob.prev_hash =
                    IF s = 0 THEN Genesis ELSE Hash(stored'[s - 1].blob)
  <2>1. s # 0 => s - 1 \in DOMAIN stored
    BY <1>1, <1>5, <1>6
  <2>2. s # 0 => stored'[s - 1] = stored[s - 1]
    BY <1>7, <2>1
  <2>3. CASE s = n
    <3>1. /\ stored'[n].blob.sequence = row.sequence
          /\ stored'[n].blob.prev_hash = row.prev_hash
          /\ stored'[n].blob.body = row.body
          /\ stored'[n] = StoredRow(stored'[n].blob)
      BY <1>8 DEF StoredRow, Hash
    <3> QED
      BY <1>3, <2>2, <2>3, <3>1
  <2>4. CASE s # n
    <3>1. s \in DOMAIN stored
      BY <1>4, <2>4
    <3> QED
      BY <1>7, <2>2, <3>1 DEF LogIsIntact
  <2> QED
    BY <2>3, <2>4
<1> QED
  BY <1>1, <1>2, <1>5, <1>6, <1>7, <1>9 DEF LogIsIntact

\* What began the log still does, after an append.
LEMMA StillBeginsLog ==
    ASSUME TableInv, LogIsIntact, NEW body \in Body, Append_(body),
           NEW chain, BeginsLog(chain)
    PROVE  (BeginsLog(chain))'
<1>1. /\ RowCount \in Nat /\ RowCount' = RowCount + 1
      /\ \A s \in DOMAIN stored : stored'[s] = stored[s]
      /\ DOMAIN stored = 0 .. RowCount - 1
  BY AppendToIntact DEF LogIsIntact
<1>2. /\ Len(chain) \in Nat /\ Len(chain) <= RowCount
      /\ \A i \in 1 .. Len(chain) : SameRow(chain[i], stored[i - 1].blob)
  BY DEF BeginsLog
<1>3. \A i \in 1 .. Len(chain) : stored'[i - 1] = stored[i - 1]
  BY <1>1, <1>2
<1> QED
  BY <1>1, <1>2, <1>3 DEF BeginsLog, SameRow

\* A good log that begins with what was pinned, but has another head, is
\* longer and has the pinned rows first.
LEMMA GrownPastThePin ==
    ASSUME CleanInv, damage = {}, pin # None, AllRows # <<>>,
           pin # HeadHash(AllRows)
    PROVE  /\ Len(AllRows) > Len(pinned)
           /\ SameRows(SubSeq(AllRows, 1, Len(pinned)), pinned)
<1> DEFINE m == Len(pinned)
           first == SubSeq(AllRows, 1, m)
<1>1. /\ Len(AllRows) = RowCount /\ RowCount \in Nat
      /\ BeginsLog(AllRows) /\ BeginsLog(pinned)
      /\ pin = HeadHash(pinned) /\ m \in Nat \ {0}
  BY IntactRead DEF CleanInv, TableInv, PinInv, GoodChain
<1>2. \A i \in 1 .. m : SameRow(AllRows[i], pinned[i])
  BY <1>1 DEF BeginsLog, SameRow
<1>3. m # RowCount
  <2> SUFFICES ASSUME m = RowCount PROVE FALSE
    OBVIOUS
  <2>1. SameRow(AllRows[m], pinned[m])
    BY <1>1, <1>2
  <2>2. HeadHash(AllRows) = HeadHash(pinned)
    BY <1>1, <2>1 DEF HeadHash, SameRow, Hash
  <2> QED
    BY <1>1, <2>2
<1>4. m < RowCount
  BY <1>1, <1>3 DEF BeginsLog
<1>5. Len(first) = m /\ \A i \in 1 .. m : first[i] = AllRows[i]
  <2> DEFINE S == {AllRows[i] : i \in 1 .. m}
  <2>1. 1 \in Int /\ m \in Int /\ \A i \in 1 .. m : AllRows[i] \in S
    BY <1>1
  <2> HIDE DEF S, m
  <2>2. /\ Len(SubSeq(AllRows, 1, m)) = IF 1 <= m THEN m - 1 + 1 ELSE 0
        /\ \A i \in 1 .. m - 1 + 1 : SubSeq(AllRows, 1, m)[i] = AllRows[1 + i - 1]
    BY <2>1, SubSeqProperties
  <2> QED
    BY <1>1, <2>2
<1> HIDE DEF first
<1>6. SameRows(first, pinned)
  BY <1>1, <1>2, <1>5 DEF SameRows, SameRow
<1> QED
  BY <1>1, <1>4, <1>6 DEF first

LEMMA StepClean == CleanInv /\ [Next]_vars => CleanInv'
<1> SUFFICES ASSUME CleanInv, [Next]_vars PROVE CleanInv'
  OBVIOUS
<1>0. TableInv /\ TableInv' /\ PinInv'
  BY StepTable, StepPin DEF CleanInv
<1>1. CASE UNCHANGED vars
  <2>1. UNCHANGED <<stored, dropped, damage, seen, pin, pinned, pc, expected, rows, report>>
    BY <1>1 DEF vars, log, verifier
  <2>2. /\ LogIsIntact => LogIsIntact'
        /\ NoFalseAlarm => NoFalseAlarm' /\ Verified' = Verified
        /\ BeginsLog(pinned) => BeginsLog(pinned)'
        /\ BeginsLog(rows) => BeginsLog(rows)'
    BY <2>1 DEF LogIsIntact, NoFalseAlarm, Verified, BeginsLog, RowCount, StoredRow, Hash,
                SameRow, SameRows
  <2> QED
    BY <1>0, <2>1, <2>2 DEF CleanInv
<1>2. ASSUME NEW body \in Body, Append_(body) PROVE CleanInv'
  <2>1. UNCHANGED <<dropped, damage, seen, pin, pinned, pc, expected, rows, report>>
    BY <1>2 DEF Append_, verifier
  <2>2. NoFalseAlarm' /\ Verified' = Verified
    BY <2>1 DEF CleanInv, NoFalseAlarm, Verified, SameRow, SameRows
  <2>3. ASSUME damage = {}
        PROVE  /\ LogIsIntact'
               /\ BeginsLog(pinned) => BeginsLog(pinned)'
               /\ BeginsLog(rows) => BeginsLog(rows)'
    <3>1. LogIsIntact
      BY <2>3 DEF CleanInv
    <3>2. LogIsIntact'
      BY <1>0, <1>2, <3>1, AppendToIntact
    <3>3. BeginsLog(pinned) => BeginsLog(pinned)'
      BY <1>0, <1>2, <2>1, <3>1, StillBeginsLog DEF BeginsLog
    <3>4. BeginsLog(rows) => BeginsLog(rows)'
      BY <1>0, <1>2, <2>1, <3>1, StillBeginsLog DEF BeginsLog
    <3> QED
      BY <3>2, <3>3, <3>4
  <2> QED
    BY <1>0, <2>1, <2>2, <2>3 DEF CleanInv
<1>3. CASE DamageTable
  <2>1. PICK statement, s : Damage(statement, s)
    BY <1>3 DEF DamageTable, DropTable, Garble, EditBlob, Edit, EditColumn, Delete, Move, Rewrite
  <2>2. /\ seen' = None \/ (pc \notin {"attribute", "compare"} /\ seen' = seen)
        /\ UNCHANGED <<pin, pinned, pc, expected, rows, report>>
    BY <1>0, <2>1, DamageIsCounted
  <2>3. damage' # {}
    BY <1>0, <2>1, DamageIsCounted
  <2>4. NoFalseAlarm'
    BY <2>2, NoneAssumption DEF CleanInv, NoFalseAlarm, SameRow, SameRows
  <2>5. pc' = "attribute" => seen' # {}
    BY <2>2, NoneAssumption
  <2> QED
    BY <1>0, <2>3, <2>4, <2>5 DEF CleanInv
<1>4. ASSUME UNCHANGED <<log, damage, pin, pinned>>,
             damage = {} /\ (pc' = "compare" \/ Verified') => BeginsLog(rows'),
             pc' = "attribute" => seen' # {},
             NoFalseAlarm'
      PROVE  CleanInv'
  <2>1. UNCHANGED <<stored, dropped, damage, pin, pinned>> /\ RowCount' = RowCount
    BY <1>4 DEF log, RowCount
  <2>2. /\ LogIsIntact => LogIsIntact'
        /\ BeginsLog(pinned) => BeginsLog(pinned)'
        /\ BeginsLog(rows') => BeginsLog(rows)'
    BY <2>1 DEF LogIsIntact, BeginsLog
  <2> QED
    BY <1>0, <1>4, <2>1, <2>2 DEF CleanInv
<1>5. ASSUME NEW head \in {None, pin}, ReadAll(head) PROVE CleanInv'
  <2>1. UNCHANGED <<log, damage, pin, pinned>> /\ seen' = damage /\ expected' = head
    BY <1>5 DEF ReadAll
  <2>2. CASE damage # {}
    BY <1>4, <2>1, <2>2 DEF NoFalseAlarm
  <2>3. CASE damage = {}
    <3>1. LogIsIntact /\ ~dropped /\ Unparsed = {}
      BY <1>0, <2>3, IntactParses DEF CleanInv, TableInv, LogIsIntact
    <3>2. /\ Len(AllRows) = RowCount /\ RowCount \in Nat
          /\ BeginsLog(AllRows) /\ Broken(AllRows) = {}
      BY <1>0, <3>1, IntactRead DEF TableInv
    <3>3. rows' = AllRows /\ CheckChain(AllRows, head)
      BY <1>5, <3>1 DEF ReadAll
    <3>4. pc' # "attribute"
      BY <3>3 DEF CheckChain, ChainIsInvalid, Answer
    <3>5. CASE AllRows = <<>>
      <4>1. pc' = "done" /\ report'.kind = "empty_chain"
        BY <3>3, <3>5 DEF CheckChain, Answer
      <4> QED
        BY <1>4, <2>1, <3>2, <3>3, <3>4, <3>5, <4>1 DEF NoFalseAlarm
    <3>6. CASE AllRows # <<>> /\ head \notin {None, HeadHash(AllRows)}
      <4>1. pc' = "done" /\ report'.kind = "head_mismatch"
        BY <3>2, <3>3, <3>6 DEF CheckChain, Answer
      <4>2. pin # None /\ pin # HeadHash(AllRows) /\ head # None
        BY <3>6
      <4>3. /\ Len(AllRows) > Len(pinned)
            /\ SameRows(SubSeq(AllRows, 1, Len(pinned)), pinned)
        BY <2>3, <3>6, <4>2, GrownPastThePin
      <4>4. NoFalseAlarm'
        BY <2>1, <3>3, <4>1, <4>2, <4>3 DEF NoFalseAlarm, SameRows, SameRow
      <4> QED
        BY <1>4, <2>1, <3>2, <3>3, <3>4, <4>4
    <3>7. CASE AllRows # <<>> /\ head \in {None, HeadHash(AllRows)}
      <4>1. pc' = "compare"
        BY <3>2, <3>3, <3>7 DEF CheckChain
      <4> QED
        BY <1>4, <2>1, <3>2, <3>3, <4>1 DEF NoFalseAlarm
    <3> QED
      BY <3>5, <3>6, <3>7
  <2> QED
    BY <2>2, <2>3
<1>6. CASE AttributeReadFailure
  <2>1. /\ UNCHANGED <<log, damage, pin, pinned, seen>> /\ pc = "attribute"
    BY <1>6 DEF AttributeReadFailure
  <2>2. PICK kind, checked, bad :
            kind \in ChainFailureKind \ {"none"} /\ Answer(kind, checked, bad, None)
    BY <1>6 DEF AttributeReadFailure, KindOfUnparsed, ChainFailureKind
  <2>3. pc' = "done" /\ ~Verified'
    BY <2>2, AnswerOfAnotherKind DEF Answer
  <2>4. seen' # {}
    BY <2>1 DEF CleanInv
  <2> QED
    BY <1>4, <2>1, <2>3, <2>4 DEF NoFalseAlarm
<1>7. CASE CompareColumns
  <2>1. UNCHANGED <<log, damage, pin, pinned, seen, expected, rows>> /\ pc = "compare"
    BY <1>7 DEF CompareColumns
  <2>2. pc' = "done"
    BY <1>7 DEF CompareColumns, Answer
  <2>3. seen = {} => damage = {}
    BY <1>0, <2>1, NoneAssumption DEF TableInv
  <2>4. ASSUME damage = {} PROVE BeginsLog(rows) /\ report'.kind = "none"
    <3>1. LogIsIntact /\ BeginsLog(rows) /\ ~dropped
      BY <2>1, <2>4 DEF CleanInv, LogIsIntact
    <3>2. Divergences(rows) = {}
      BY <1>0, <3>1, IntactComparison DEF TableInv
    <3> QED
      BY <1>7, <3>1, <3>2 DEF CompareColumns, Answer
  <2>5. NoFalseAlarm'
    BY <2>1, <2>3, <2>4 DEF NoFalseAlarm
  <2> QED
    BY <1>4, <2>1, <2>2, <2>4, <2>5
<1>8. CASE Pin
  <2>1. /\ UNCHANGED <<log, damage, seen, pc, expected, rows, report>>
        /\ pinned' = rows /\ pc = "done" /\ report.kind = "none"
    BY <1>8 DEF Pin, verifier
  <2>2. UNCHANGED <<stored, dropped>> /\ RowCount' = RowCount /\ Verified /\ Verified' = Verified
    BY <2>1 DEF log, RowCount, Verified, ExitCode
  <2>3. /\ LogIsIntact => LogIsIntact'
        /\ BeginsLog(rows) => BeginsLog(pinned)' /\ BeginsLog(rows)'
    BY <2>1, <2>2 DEF LogIsIntact, BeginsLog
  <2>4. NoFalseAlarm'
    BY <2>1 DEF NoFalseAlarm
  <2> QED
    BY <1>0, <2>1, <2>2, <2>3, <2>4 DEF CleanInv
<1> QED
  BY <1>1, <1>2, <1>3, <1>5, <1>6, <1>7, <1>8 DEF Next, Verify

LEMMA InitClean == Init => CleanInv
<1> SUFFICES ASSUME Init PROVE CleanInv
  OBVIOUS
<1>1. stored = <<>> /\ DOMAIN stored = {} /\ pc = "idle" /\ ~dropped /\ pin = None
  BY DEF Init
<1>2. RowCount = 0
  BY <1>1, FS_EmptySet DEF RowCount
<1>3. LogIsIntact
  BY <1>1, <1>2 DEF LogIsIntact
<1> QED
  BY <1>1, <1>3, InitTable, InitPin DEF CleanInv, NoFalseAlarm, Verified

\* However the application goes on appending while the log is read, a log
\* that nothing damaged is verified, is empty, or has grown past the pin.
THEOREM NoFalseAlarmAlways == Spec => []NoFalseAlarm
<1>1. CleanInv => NoFalseAlarm
  BY DEF CleanInv
<1> QED
  BY <1>1, InitClean, StepClean, PTL DEF Spec

-----------------------------------------------------------------------------
(***************************************************************************)
(* One damaging statement is named.  After it, and whatever was appended   *)
(* since, the table holds a chain that only the statement set apart: in    *)
(* one row of it, by one row missing, by one row in another column, or not *)
(* at all -- or rows that are linked up to one that is forged, or whose    *)
(* predecessor is.  What the verifier reads of such a table is known.      *)
(***************************************************************************)

\* The first n rows the application wrote.
ChainOf(L, n) ==
    \A i \in 0 .. n - 1 :
        /\ L[i].sequence = i
        /\ L[i].prev_hash = IF i = 0 THEN Genesis ELSE Hash(L[i - 1])

Holds(L, S) == \A t \in S : stored[t] = StoredRow(L[t])

Unreadable == {"garble", "edit", "renumber", "relink", "forge link", "forge number"}
Misplacing == {"forge link", "forge number"}
Unmirroring == {"column", "forge body"}

\* What a statement on one row leaves of it.  A last row with a forged body is
\* a row of a chain, but not the one its columns mirror.
Left(statement, row, r) ==
    \/ /\ statement \in Unreadable /\ ~Parses(r.blob)
       /\ statement = "garble" => r.blob = Garbled
       /\ statement = "edit" => IsAuditRow(r.blob)
       /\ statement \in Misplacing => ~IsAuditRow(r.blob)
    \/ /\ statement = "unclaim"
       /\ r = [StoredRow(row) EXCEPT !.blob.row_hash = Absent]
    \/ /\ statement \in Unmirroring /\ r.blob = StoredRow(row).blob
       /\ r.prev_hash # row.prev_hash \/ r.row_hash # Hash(row)

InPlace(L, n, d) ==
    /\ ~dropped /\ d[2] \in 0 .. n - 1 /\ DOMAIN stored = 0 .. n - 1
    /\ Holds(L, (0 .. n - 1) \ {d[2]})
    /\ Left(d[1], L[d[2]], stored[d[2]])

AtRow(d) == \E n \in Nat : \E L : ChainOf(L, n) /\ InPlace(L, n, d)

Gap(L, n, d) ==
    /\ ~dropped /\ d[1] = "delete"
    /\ d[2] \in 0 .. n - 1 /\ d[2] # n - 1
    /\ DOMAIN stored = (0 .. n - 1) \ {d[2]}
    /\ Holds(L, DOMAIN stored)

Moved(L, n, d) ==
    LET s == d[2][1]
        t == d[2][2]
    IN  /\ ~dropped /\ d[1] = "move"
        /\ s \in 0 .. n - 1 /\ t \in Nat /\ t >= n
        /\ DOMAIN stored = ((0 .. n - 1) \ {s}) \cup {t}
        /\ Holds(L, (0 .. n - 1) \ {s})
        /\ stored[t] = StoredRow(L[s])

\* The blob in column c is the row that comes after the first i.
Follows(c, i) ==
    /\ stored[c].blob.sequence = i
    /\ stored[c].blob.prev_hash = IF i = 0 THEN Genesis ELSE Hash(stored[i - 1].blob)

\* All blobs parse and the first i are linked, but the next, in column c, is
\* not.
Severed(i, c) ==
    /\ ~dropped /\ Unparsed = {}
    /\ i \in Nat /\ 0 .. i - 1 \subseteq DOMAIN stored /\ c \in DOMAIN stored /\ c >= i
    /\ \A u \in DOMAIN stored : u <= c => u \in (0 .. i - 1) \cup {c}
    /\ \A j \in 0 .. i - 1 : Follows(j, j)
    /\ ~Follows(c, i)

Numbered ==
    /\ DOMAIN stored = 0 .. RowCount - 1
    /\ \A s \in DOMAIN stored : stored[s].blob.sequence = s

\* The table after a row was edited and its claim computed again: the row is
\* not linked to those before it, or the next is not linked to it.
ForgedRow(d) ==
    \/ /\ d[1] = "forge number" /\ Severed(d[2], d[2])
       /\ stored[d[2]].blob.sequence # d[2]
    \/ d[1] = "forge link" /\ Severed(d[2], d[2]) /\ Numbered
    \/ d[1] = "forge body" /\ Severed(d[2] + 1, d[2] + 1) /\ Numbered

\* The table after one damaging statement, and whatever was appended since.
Hit(d) ==
    \/ AtRow(d)
    \/ ForgedRow(d)
    \/ \E n \in Nat : \E L : ChainOf(L, n) /\ Gap(L, n, d)
    \/ \E n \in Nat : \E L : ChainOf(L, n) /\ Moved(L, n, d)
    \/ LogIsIntact /\ d[1] = "delete"
    \/ LogIsIntact /\ d[1] = "rewrite" /\ DOMAIN stored # {}
    \/ dropped /\ d[1] = "drop"

-----------------------------------------------------------------------------

\* The blobs of an intact log are its rows.
LEMMA IntactChain ==
    ASSUME TypeOK, LogIsIntact
    PROVE  LET L == [s \in DOMAIN stored |-> stored[s].blob]
           IN  ChainOf(L, RowCount) /\ Holds(L, 0 .. RowCount - 1)
<1> DEFINE L == [s \in DOMAIN stored |-> stored[s].blob]
<1>1. RowCount \in Nat /\ DOMAIN stored = 0 .. RowCount - 1
  BY TableIsFinite DEF LogIsIntact
<1>2. \A s \in DOMAIN stored : L[s] = stored[s].blob
  OBVIOUS
<1> HIDE DEF L
<1>3. ASSUME NEW i \in 0 .. RowCount - 1
      PROVE  /\ L[i].sequence = i
             /\ L[i].prev_hash = IF i = 0 THEN Genesis ELSE Hash(L[i - 1])
             /\ stored[i] = StoredRow(L[i])
  <2>1. i # 0 => i - 1 \in DOMAIN stored
    BY <1>1
  <2> QED
    BY <1>1, <1>2, <2>1 DEF LogIsIntact
<1> QED
  BY <1>3 DEF ChainOf, Holds, L

\* A row that states its own number, link and hash.
LEMMA ChainRow ==
    ASSUME NEW n \in Nat, NEW L, ChainOf(L, n), NEW i \in 0 .. n - 1
    PROVE  /\ IsAuditRow(StoredRow(L[i]).blob) /\ Parses(StoredRow(L[i]).blob)
           /\ SameRow(StoredRow(L[i]).blob, L[i])
<1>1. L[i].sequence = i /\ L[i].prev_hash = IF i = 0 THEN Genesis ELSE Hash(L[i - 1])
  BY DEF ChainOf
<1> DEFINE row == L[i]
           blob == StoredRow(row).blob
<1>2. /\ blob.sequence = i /\ blob.prev_hash = row.prev_hash /\ blob.body = row.body
      /\ blob.row_hash = Hash(row)
  BY <1>1 DEF StoredRow
<1>3. Hash(blob) = Hash(row) /\ SameRow(blob, row)
  BY <1>1, <1>2 DEF Hash, SameRow
<1>4. blob # Garbled
  BY <1>2, NoneAssumption DEF Garbled
<1>5. i = 0 <=> blob.prev_hash = Genesis
  BY <1>1, <1>2 DEF Genesis, Hash
<1> HIDE DEF blob, row
<1>6. IsAuditRow(blob)
  BY <1>2, <1>4, <1>5 DEF IsAuditRow
<1> QED
  BY <1>2, <1>3, <1>6 DEF Parses, ClaimAgrees, blob, row

\* A blob whose contents changed, but not its claim, does not parse.
LEMMA ChangedContents ==
    ASSUME NEW row, NEW blob,
           blob.row_hash = Hash(row), ~SameRow(blob, row)
    PROVE  ~Parses(blob)
<1>1. Hash(row) # Absent
  BY DEF Hash, Absent
<1> QED
  BY <1>1, HashIsInjective DEF Parses, ClaimAgrees, SameRow

LEMMA OneStatement ==
    ASSUME TableInv, damage = {}, NEW statement, NEW s, Damage(statement, s),
           NEW d, damage' = {d}
    PROVE  d[1] = statement /\ d[2] = s
<1>1. damage' = {<<statement, s>>}
  BY DEF Damage
<1>2. d = <<statement, s>>
  BY <1>1
<1> QED
  BY <1>2

\* One row of an intact log is changed in its place.
LEMMA HitInPlace ==
    ASSUME TableInv, LogIsIntact, damage = {},
           NEW statement, NEW s \in DOMAIN stored, Damage(statement, s),
           NEW d, damage' = {d}, dropped' = dropped, NEW r,
           stored' = [stored EXCEPT ![s] = r],
           Left(statement, stored[s].blob, r)
    PROVE  Hit(d)'
<1>1. d[1] = statement /\ d[2] = s
  BY OneStatement
<1>2a. PICK n \in Nat : \E L : /\ ChainOf(L, n) /\ Holds(L, 0 .. n - 1)
                               /\ DOMAIN stored = 0 .. n - 1 /\ L[s] = stored[s].blob
  <2> DEFINE blobs == [t \in DOMAIN stored |-> stored[t].blob]
  <2>1. RowCount \in Nat /\ DOMAIN stored = 0 .. RowCount - 1 /\ blobs[s] = stored[s].blob
    BY TableIsFinite DEF TableInv, LogIsIntact
  <2>2. ChainOf(blobs, RowCount) /\ Holds(blobs, 0 .. RowCount - 1)
    BY IntactChain DEF TableInv
  <2> QED
    BY <2>1, <2>2
<1>2. PICK L : /\ ChainOf(L, n) /\ Holds(L, 0 .. n - 1)
               /\ DOMAIN stored = 0 .. n - 1 /\ L[s] = stored[s].blob
  BY <1>2a
<1>3. /\ DOMAIN stored' = 0 .. n - 1 /\ stored'[s] = r
      /\ \A t \in (0 .. n - 1) \ {s} : stored'[t] = stored[t]
  BY <1>2
<1>4. Holds(L, (0 .. n - 1) \ {s})'
  BY <1>2, <1>3 DEF Holds
<1>5. InPlace(L, n, d)'
  BY <1>1, <1>2, <1>3, <1>4 DEF InPlace, LogIsIntact
<1> QED
  BY <1>2, <1>5 DEF Hit, AtRow

\* An intact log of which one blob is another audit row, with its claim.
LEMMA OneBlobForged ==
    ASSUME TableInv, LogIsIntact, NEW s \in DOMAIN stored, NEW new,
           SetBlob(s, new), IsAuditRow(new), new.row_hash = Hash(new)
    PROVE  /\ ~Follows(s, s)' => Severed(s, s)'
           /\ Hash(new) # Hash(stored[s].blob) /\ Follows(s, s)' /\ s + 1 \in DOMAIN stored
                => Severed(s + 1, s + 1)'
           /\ new.sequence = s => Numbered'
           /\ stored'[s].blob = new
<1> DEFINE n == RowCount
<1>1. n \in Nat /\ DOMAIN stored = 0 .. n - 1 /\ ~dropped /\ s \in Nat
  BY TableIsFinite DEF TableInv, LogIsIntact
<1>2. stored[s] = StoredRow(stored[s].blob)
  BY DEF LogIsIntact
<1>3. /\ DOMAIN stored' = DOMAIN stored /\ dropped' = dropped
      /\ stored'[s].blob = new
      /\ \A t \in DOMAIN stored : t # s => stored'[t] = stored[t]
  <2>1. stored' = [stored EXCEPT ![s] = [stored[s] EXCEPT !.blob = new]] /\ dropped' = dropped
    BY DEF SetBlob
  <2>2. [stored[s] EXCEPT !.blob = new].blob = new
    BY <1>2 DEF StoredRow
  <2> QED
    BY <2>1, <2>2
<1>4. RowCount' = n
  BY <1>3 DEF RowCount
<1>5. \A t \in DOMAIN stored : Follows(t, t)
  BY <1>1 DEF LogIsIntact, Follows
<1>6. Unparsed' = {}
  <2>1. Unparsed = {}
    BY IntactParses DEF TableInv
  <2>2. Parses(new)
    BY DEF Parses, ClaimAgrees
  <2> QED
    BY <1>3, <2>1, <2>2 DEF Unparsed
<1> HIDE DEF n
<1>7. \A t \in 0 .. n - 1 : t < s => Follows(t, t)'
  <2> SUFFICES ASSUME NEW t \in 0 .. n - 1, t < s PROVE Follows(t, t)'
    OBVIOUS
  <2>1. stored'[t] = stored[t] /\ (t # 0 => stored'[t - 1] = stored[t - 1])
    BY <1>1, <1>3
  <2> QED
    BY <1>1, <1>5, <2>1 DEF Follows
<1>8. ASSUME ~Follows(s, s)' PROVE Severed(s, s)'
  BY <1>1, <1>3, <1>6, <1>7, <1>8 DEF Severed
<1>9. ASSUME Hash(new) # Hash(stored[s].blob), Follows(s, s)', s + 1 \in DOMAIN stored
      PROVE  Severed(s + 1, s + 1)'
  <2>1. ~Follows(s + 1, s + 1)'
    <3>1. stored'[s + 1] = stored[s + 1] /\ (s + 1) - 1 = s /\ s + 1 # 0
      BY <1>1, <1>3, <1>9
    <3>2. stored[s + 1].blob.prev_hash = Hash(stored[s].blob)
      BY <1>5, <1>9, <3>1 DEF Follows
    <3> QED
      BY <1>3, <1>9, <3>1, <3>2 DEF Follows
  <2>2. \A j \in 0 .. s : Follows(j, j)'
    BY <1>1, <1>7, <1>9
  <2>3. /\ 0 .. (s + 1) - 1 \subseteq DOMAIN stored' /\ s + 1 \in Nat
        /\ \A u \in DOMAIN stored' : u <= s + 1 => u \in (0 .. (s + 1) - 1) \cup {s + 1}
    BY <1>1, <1>3
  <2> QED
    BY <1>1, <1>3, <1>6, <1>9, <2>1, <2>2, <2>3 DEF Severed
<1>10. ASSUME new.sequence = s PROVE Numbered'
  BY <1>1, <1>3, <1>4, <1>5, <1>10 DEF Numbered, Follows
<1> QED
  BY <1>3, <1>8, <1>9, <1>10

LEMMA LastNumber ==
    ASSUME NEW n \in Nat, NEW s \in 0 .. n - 1, s + 1 \notin 0 .. n - 1
    PROVE  s = n - 1 /\ s \in Nat
OBVIOUS

\* Other contents of the last row leave it linked.
LEMMA LastRelinked ==
    ASSUME NEW n \in Nat, NEW blobs, ChainOf(blobs, n),
           NEW s \in 0 .. n - 1, s + 1 \notin 0 .. n - 1,
           NEW L, \A t \in 0 .. n - 1 : t # s => L[t] = blobs[t],
           L[s].sequence = blobs[s].sequence, L[s].prev_hash = blobs[s].prev_hash
    PROVE  ChainOf(L, n)
<1>1. s = n - 1 /\ s \in Nat
  BY LastNumber
<1> SUFFICES ASSUME NEW i \in 0 .. n - 1
             PROVE  /\ L[i].sequence = i
                    /\ L[i].prev_hash = IF i = 0 THEN Genesis ELSE Hash(L[i - 1])
  BY DEF ChainOf
<1>2. i # 0 => L[i - 1] = blobs[i - 1]
  BY <1>1
<1>3. L[i].sequence = blobs[i].sequence /\ L[i].prev_hash = blobs[i].prev_hash
  OBVIOUS
<1> QED
  BY <1>2, <1>3 DEF ChainOf

WithBlob(r, blob) == [r EXCEPT !.blob = blob]

LEMMA BlobSet ==
    ASSUME NEW row, NEW blob
    PROVE  /\ WithBlob(StoredRow(row), blob).blob = blob
           /\ WithBlob(StoredRow(row), blob).row_hash = Hash(row)
BY DEF StoredRow, WithBlob

\* The columns stay as they were when a blob is set.
LEMMA EditedRow ==
    ASSUME LogIsIntact, NEW s \in DOMAIN stored, NEW new, SetBlob(s, new)
    PROVE  stored'[s].blob = new /\ stored'[s].row_hash = Hash(stored[s].blob)
<1>1. stored'[s] = WithBlob(stored[s], new)
  BY DEF SetBlob, WithBlob
<1>2. PICK row : row = stored[s].blob
  OBVIOUS
<1>3. stored'[s] = WithBlob(StoredRow(row), new)
  BY <1>1, <1>2 DEF LogIsIntact
<1>4. stored'[s].blob = new /\ stored'[s].row_hash = Hash(row)
  BY <1>3, BlobSet
<1> QED
  BY <1>2, <1>4

\* The last row with a forged body ends a chain of its own.
LEMMA HitLastBody ==
    ASSUME TableInv, LogIsIntact, damage = {},
           NEW s \in DOMAIN stored, s + 1 \notin DOMAIN stored,
           Damage("forge body", s), NEW d, damage' = {d}, NEW new, SetBlob(s, new),
           new = StoredRow(new).blob, Hash(new) # Hash(stored[s].blob),
           new.sequence = stored[s].blob.sequence,
           new.prev_hash = stored[s].blob.prev_hash
    PROVE  Hit(d)'
<1>1. d[1] = "forge body" /\ d[2] = s
  BY OneStatement
<1>2. PICK n \in Nat : n = RowCount /\ DOMAIN stored = 0 .. n - 1
  BY TableIsFinite DEF TableInv, LogIsIntact
<1>3. PICK blobs : blobs = [t \in DOMAIN stored |-> stored[t].blob]
  OBVIOUS
<1>4. /\ ChainOf(blobs, n) /\ Holds(blobs, 0 .. n - 1)
      /\ \A t \in 0 .. n - 1 : blobs[t] = stored[t].blob
  BY <1>2, <1>3, IntactChain DEF TableInv
<1>5. PICK L : L = [blobs EXCEPT ![s] = new]
  OBVIOUS
<1>6. L[s] = new /\ \A t \in 0 .. n - 1 : t # s => L[t] = blobs[t]
  BY <1>2, <1>3, <1>5
<1>7. s \in 0 .. n - 1 /\ s + 1 \notin 0 .. n - 1
  BY <1>2
<1>8. ChainOf(L, n)
  <2>1. L[s].sequence = blobs[s].sequence /\ L[s].prev_hash = blobs[s].prev_hash
    BY <1>4, <1>6, <1>7
  <2> QED
    BY <1>2, <1>4, <1>6, <1>7, <2>1, LastRelinked
<1>9. /\ DOMAIN stored' = 0 .. n - 1 /\ ~dropped'
      /\ stored'[s] = [stored[s] EXCEPT !.blob = new]
      /\ \A t \in (0 .. n - 1) \ {s} : stored'[t] = stored[t]
  BY <1>2 DEF SetBlob, LogIsIntact
<1>10. Holds(L, (0 .. n - 1) \ {s})'
  BY <1>4, <1>6, <1>9 DEF Holds
<1>11. stored'[s].blob = new /\ stored'[s].row_hash = Hash(stored[s].blob)
  BY EditedRow
<1>12. "forge body" \in Unmirroring
  BY DEF Unmirroring
<1>13. Left("forge body", L[s], stored'[s])
  BY <1>6, <1>11, <1>12 DEF Left
<1>14. InPlace(L, n, d)'
  BY <1>1, <1>7, <1>9, <1>10, <1>13 DEF InPlace
<1> QED
  BY <1>2, <1>8, <1>14 DEF Hit, AtRow

LEMMA HitBlob ==
    ASSUME TableInv, LogIsIntact, damage = {},
           NEW s \in DOMAIN stored, Garble(s) \/ EditBlob(s),
           NEW d, damage' = {d}
    PROVE  Hit(d)'
<1> DEFINE blob == stored[s].blob
<1>1. /\ stored[s] = StoredRow(blob) /\ blob.sequence \in Nat
      /\ blob.sequence = 0 <=> blob.prev_hash = Genesis
  <2>1. stored[s] = StoredRow(blob) /\ s \in Nat
    BY TableIsFinite DEF TableInv, LogIsIntact
  <2>2. blob.sequence = s /\ blob.prev_hash = IF s = 0 THEN Genesis ELSE Hash(stored[s - 1].blob)
    BY DEF LogIsIntact
  <2> HIDE DEF blob
  <2> QED
    BY <2>1, <2>2 DEF Genesis, Hash
<1>2. stored[s] = [blob |-> blob, prev_hash |-> blob.prev_hash, row_hash |-> Hash(blob)]
  BY <1>1 DEF StoredRow
<1> HIDE DEF blob
<1>3. /\ blob = [sequence |-> blob.sequence, prev_hash |-> blob.prev_hash,
                 body |-> blob.body, row_hash |-> Hash(blob)]
  BY <1>1 DEF StoredRow, blob
<1>4. ASSUME NEW new, NEW statement, Damage(statement, s), SetBlob(s, new),
             Left(statement, blob, [stored[s] EXCEPT !.blob = new])
      PROVE  Hit(d)'
  <2>1. stored' = [stored EXCEPT ![s] = [stored[s] EXCEPT !.blob = new]] /\ dropped' = dropped
    BY <1>4 DEF SetBlob
  <2> QED
    BY <1>4, <2>1, HitInPlace DEF blob
<1>5. ASSUME NEW new, SetBlob(s, new)
      PROVE  new # blob /\ [stored[s] EXCEPT !.blob = new].blob = new
  BY <1>2, <1>5 DEF SetBlob, blob
<1>6. CASE Garble(s)
  <2>1. ~Parses(Garbled)
    BY DEF Parses, IsAuditRow
  <2> QED
    BY <1>4, <1>5, <1>6, <2>1 DEF Garble, Left, Unreadable, Misplacing
<1>7. ASSUME NEW body, Damage("edit", s), SetBlob(s, [blob EXCEPT !.body = body])
      PROVE  Hit(d)'
  <2> DEFINE new == [blob EXCEPT !.body = body]
  <2>1. /\ new.body # blob.body /\ new.row_hash = Hash(blob)
        /\ new.sequence = blob.sequence /\ new.prev_hash = blob.prev_hash
    BY <1>3, <1>5, <1>7
  <2>2. new # Garbled
    BY <1>1, <2>1, NoneAssumption DEF Garbled
  <2>3. SetBlob(s, new) /\ [stored[s] EXCEPT !.blob = new].blob = new
    BY <1>5, <1>7
  <2> HIDE DEF new
  <2>4. ~Parses(new)
    BY <2>1, ChangedContents DEF SameRow
  <2>5. IsAuditRow(new)
    BY <1>1, <2>1, <2>2 DEF IsAuditRow
  <2>6. Left("edit", blob, [stored[s] EXCEPT !.blob = new])
    BY <2>3, <2>4, <2>5 DEF Left, Unreadable, Misplacing
  <2> QED
    BY <1>4, <1>7, <2>3, <2>6
<1>8. ASSUME NEW m, Damage("renumber", s), SetBlob(s, [blob EXCEPT !.sequence = m])
      PROVE  Hit(d)'
  <2> DEFINE new == [blob EXCEPT !.sequence = m]
  <2>1. new.sequence # blob.sequence /\ new.row_hash = Hash(blob)
    BY <1>3, <1>5, <1>8
  <2> QED
    BY <1>4, <1>5, <1>8, <2>1, ChangedContents DEF Left, Unreadable, Misplacing, SameRow
<1>9. ASSUME NEW hash, Damage("relink", s), SetBlob(s, [blob EXCEPT !.prev_hash = hash])
      PROVE  Hit(d)'
  <2> DEFINE new == [blob EXCEPT !.prev_hash = hash]
  <2>1. new.prev_hash # blob.prev_hash /\ new.row_hash = Hash(blob)
    BY <1>3, <1>5, <1>9
  <2> QED
    BY <1>4, <1>5, <1>9, <2>1, ChangedContents DEF Left, Unreadable, Misplacing, SameRow
<1>10. ASSUME Damage("unclaim", s), SetBlob(s, [blob EXCEPT !.row_hash = Absent])
       PROVE  Hit(d)'
  <2> DEFINE new == [blob EXCEPT !.row_hash = Absent]
  <2>1. [stored[s] EXCEPT !.blob = new] = [StoredRow(blob) EXCEPT !.blob.row_hash = Absent]
    BY <1>1, <1>2
  <2> QED
    BY <1>4, <1>10, <2>1 DEF Left
<1>11. blob.sequence = s
  BY DEF LogIsIntact, blob
<1>same. Forged(blob) = blob
  BY <1>3 DEF Forged
<1>12. ASSUME NEW new, NEW statement \in Misplacing,
              Damage(statement, s), SetBlob(s, new), ~IsAuditRow(new)
       PROVE  Hit(d)'
  BY <1>4, <1>5, <1>12 DEF Left, Unreadable, Misplacing, Parses
<1>13. ASSUME NEW new, new.row_hash = Hash(new), SetBlob(s, new), IsAuditRow(new)
       PROVE  /\ ~Follows(s, s)' => Severed(s, s)'
              /\ Hash(new) # Hash(blob) /\ Follows(s, s)' /\ s + 1 \in DOMAIN stored
                    => Severed(s + 1, s + 1)'
              /\ new.sequence = s => Numbered'
              /\ stored'[s].blob = new
  BY <1>13, OneBlobForged DEF blob
<1>14. \A statement : Damage(statement, s) => d[1] = statement /\ d[2] = s
  BY OneStatement
<1>15. ASSUME NEW m, Damage("forge number", s), SetBlob(s, Forged([blob EXCEPT !.sequence = m]))
       PROVE  Hit(d)'
  <2> DEFINE new == Forged([blob EXCEPT !.sequence = m])
  <2>1. /\ new.sequence = m /\ new.prev_hash = blob.prev_hash /\ new.body = blob.body
        /\ new.row_hash = Hash(new)
    BY <1>3 DEF Forged, Hash
  <2>2. m # s
    <3>1. m = s => [blob EXCEPT !.sequence = m] = blob
      BY <1>3, <1>11
    <3>2. m = s => new = blob
      BY <1>same, <3>1
    <3> QED
      BY <1>5, <1>15, <3>2
  <2>3. SetBlob(s, new)
    BY <1>15
  <2> HIDE DEF new
  <2>4. CASE IsAuditRow(new)
    <3>1. stored'[s].blob = new
      BY <1>13, <2>1, <2>3, <2>4
    <3>2. ~Follows(s, s)' /\ stored'[s].blob.sequence # s
      BY <2>1, <2>2, <3>1 DEF Follows
    <3>3. Severed(s, s)'
      BY <1>13, <2>1, <2>3, <2>4, <3>2
    <3> QED
      BY <1>14, <1>15, <3>2, <3>3 DEF Hit, ForgedRow
  <2> QED
    BY <1>12, <1>15, <2>1, <2>3, <2>4 DEF Misplacing
<1>16. ASSUME NEW hash, Damage("forge link", s),
              SetBlob(s, Forged([blob EXCEPT !.prev_hash = hash]))
       PROVE  Hit(d)'
  <2> DEFINE new == Forged([blob EXCEPT !.prev_hash = hash])
  <2>1. /\ new.sequence = s /\ new.prev_hash = hash /\ new.body = blob.body
        /\ new.row_hash = Hash(new)
    BY <1>3, <1>11 DEF Forged, Hash
  <2>2. hash # blob.prev_hash
    <3>1. hash = blob.prev_hash => [blob EXCEPT !.prev_hash = hash] = blob
      BY <1>3
    <3>2. hash = blob.prev_hash => new = blob
      BY <1>same, <3>1
    <3> QED
      BY <1>5, <1>16, <3>2
  <2>3. SetBlob(s, new)
    BY <1>16
  <2> HIDE DEF new
  <2>4. CASE IsAuditRow(new)
    <3>1. stored'[s].blob = new
      BY <1>13, <2>1, <2>3, <2>4
    <3>2. ~Follows(s, s)'
      <4>1. blob.prev_hash = IF s = 0 THEN Genesis ELSE Hash(stored[s - 1].blob)
        BY DEF LogIsIntact, blob
      <4>2. s # 0 => stored'[s - 1] = stored[s - 1]
        <5>1. s \in Nat
          BY TableIsFinite DEF TableInv
        <5> QED
          BY <2>3, <5>1, TableIsFinite DEF SetBlob, LogIsIntact, TableInv
      <4> QED
        BY <2>1, <2>2, <3>1, <4>1, <4>2 DEF Follows
    <3>3. Severed(s, s)' /\ Numbered'
      BY <1>13, <2>1, <2>3, <2>4, <3>2
    <3> QED
      BY <1>14, <1>16, <3>3 DEF Hit, ForgedRow
  <2> QED
    BY <1>12, <1>16, <2>1, <2>3, <2>4 DEF Misplacing
<1>17. ASSUME NEW body, Damage("forge body", s), SetBlob(s, Forged([blob EXCEPT !.body = body]))
       PROVE  Hit(d)'
  <2> DEFINE new == Forged([blob EXCEPT !.body = body])
  <2>1. /\ new.sequence = s /\ new.prev_hash = blob.prev_hash /\ new.body = body
        /\ new.row_hash = Hash(new) /\ new = StoredRow(new).blob
    <3> DEFINE edited == [blob EXCEPT !.body = body]
    <3>1. edited = [sequence |-> s, prev_hash |-> blob.prev_hash, body |-> body,
                    row_hash |-> Hash(blob)]
      BY <1>3, <1>11
    <3> HIDE DEF edited
    <3>2. Forged(edited) = [sequence |-> s, prev_hash |-> blob.prev_hash, body |-> body,
                            row_hash |-> Hash(edited)]
      BY <3>1 DEF Forged
    <3>3. Hash(edited) = Hash(Forged(edited))
      BY <3>1, <3>2 DEF Hash
    <3>4. new = Forged(edited)
      BY DEF edited
    <3> HIDE DEF new
    <3>5. new = [sequence |-> s, prev_hash |-> blob.prev_hash, body |-> body,
                 row_hash |-> Hash(new)]
      BY <3>2, <3>3, <3>4
    <3> QED
      BY <3>5 DEF StoredRow
  <2>2. Hash(new) # Hash(blob)
    <3>1. body = blob.body => [blob EXCEPT !.body = body] = blob
      BY <1>3
    <3>2. body = blob.body => new = blob
      BY <1>same, <3>1
    <3>3. body # blob.body
      BY <1>5, <1>17, <3>2
    <3> QED
      BY <2>1, <3>3 DEF Hash
  <2>3. SetBlob(s, new)
    BY <1>17
  <2> HIDE DEF new
  <2>4. IsAuditRow(new)
    <3>1. new # Garbled
      BY <1>1, <1>11, <2>1, NoneAssumption DEF Garbled
    <3> QED
      BY <1>1, <1>11, <2>1, <3>1 DEF IsAuditRow
  <2>5. CASE s + 1 \notin DOMAIN stored
    BY <1>11, <1>17, <2>1, <2>2, <2>3, <2>5, HitLastBody DEF blob
  <2>6. CASE s + 1 \in DOMAIN stored
    <3>1. stored'[s].blob = new
      BY <1>13, <2>1, <2>3, <2>4
    <3>2. Follows(s, s)'
      <4>1. blob.prev_hash = IF s = 0 THEN Genesis ELSE Hash(stored[s - 1].blob)
        BY DEF LogIsIntact, blob
      <4>2. s # 0 => stored'[s - 1] = stored[s - 1]
        <5>1. s \in Nat
          BY TableIsFinite DEF TableInv
        <5> QED
          BY <2>3, <5>1, TableIsFinite DEF SetBlob, LogIsIntact, TableInv
      <4> QED
        BY <2>1, <3>1, <4>1, <4>2 DEF Follows
    <3>3. Severed(s + 1, s + 1)' /\ Numbered'
      BY <1>13, <2>1, <2>2, <2>3, <2>4, <2>6, <3>2
    <3> QED
      BY <1>14, <1>17, <3>3 DEF Hit, ForgedRow
  <2> QED
    BY <2>5, <2>6
<1>18. CASE EditBlob(s)
  BY <1>7, <1>8, <1>9, <1>10, <1>15, <1>16, <1>17, <1>18 DEF EditBlob, Edit, blob
<1> QED
  BY <1>6, <1>18

LEMMA HitColumn ==
    ASSUME TableInv, LogIsIntact, damage = {},
           NEW s \in DOMAIN stored, EditColumn(s),
           NEW d, damage' = {d}
    PROVE  Hit(d)'
<1> DEFINE row == stored[s]
<1>1. row = StoredRow(row.blob)
  BY DEF LogIsIntact
<1>2. row = [blob |-> row.blob, prev_hash |-> row.blob.prev_hash, row_hash |-> Hash(row.blob)]
  BY <1>1 DEF StoredRow
<1> HIDE DEF row
<1>3. PICK hash : /\ Damage("column", s) /\ dropped' = dropped
                  /\ \/ /\ row.prev_hash # hash
                        /\ stored' = [stored EXCEPT ![s] = [row EXCEPT !.prev_hash = hash]]
                     \/ /\ row.row_hash # hash
                        /\ stored' = [stored EXCEPT ![s] = [row EXCEPT !.row_hash = hash]]
  BY DEF EditColumn, IsFree, row
<1>4. ASSUME NEW r, stored' = [stored EXCEPT ![s] = r], r.blob = row.blob,
             r.prev_hash # row.prev_hash \/ r.row_hash # row.row_hash
      PROVE  Hit(d)'
  <2>1. r.blob = StoredRow(row.blob).blob
    BY <1>1, <1>4
  <2>2. r.prev_hash # row.blob.prev_hash \/ r.row_hash # Hash(row.blob)
    BY <1>2, <1>4
  <2>3. Left("column", row.blob, r)
    BY <2>1, <2>2 DEF Left, Unmirroring
  <2> QED
    BY <1>3, <1>4, <2>3, HitInPlace DEF row
<1>5. CASE row.prev_hash # hash
           /\ stored' = [stored EXCEPT ![s] = [row EXCEPT !.prev_hash = hash]]
  <2>1. /\ [row EXCEPT !.prev_hash = hash].blob = row.blob
        /\ [row EXCEPT !.prev_hash = hash].prev_hash = hash
    BY <1>2
  <2> QED
    BY <1>4, <1>5, <2>1
<1>6. CASE row.row_hash # hash
           /\ stored' = [stored EXCEPT ![s] = [row EXCEPT !.row_hash = hash]]
  <2>1. /\ [row EXCEPT !.row_hash = hash].blob = row.blob
        /\ [row EXCEPT !.row_hash = hash].row_hash = hash
    BY <1>2
  <2> QED
    BY <1>4, <1>6, <2>1
<1> QED
  BY <1>3, <1>5, <1>6

\* A row that is gone leaves a gap, or a shorter log that is intact.
LEMMA HitDelete ==
    ASSUME TableInv, LogIsIntact, damage = {},
           NEW s \in DOMAIN stored, Delete(s),
           NEW d, damage' = {d}
    PROVE  Hit(d)'
<1> DEFINE n == RowCount
<1>1. /\ Damage("delete", s) /\ dropped' = dropped
      /\ stored' = [t \in DOMAIN stored \ {s} |-> stored[t]]
  BY DEF Delete
<1>2. d[1] = "delete" /\ d[2] = s
  BY <1>1, OneStatement
<1>3. n \in Nat /\ DOMAIN stored = 0 .. n - 1 /\ ~dropped /\ IsFiniteSet(DOMAIN stored)
  BY TableIsFinite DEF TableInv, LogIsIntact
<1>4. DOMAIN stored' = DOMAIN stored \ {s} /\ \A t \in DOMAIN stored' : stored'[t] = stored[t]
  BY <1>1
<1>5. CASE s = n - 1
  <2>1. RowCount' = n - 1
    <3>1. Cardinality(DOMAIN stored \ {s}) = n - 1
      BY <1>3, FS_RemoveElement DEF RowCount
    <3> QED
      BY <1>4, <3>1 DEF RowCount
  <2>2. DOMAIN stored' = 0 .. RowCount' - 1
    BY <1>3, <1>4, <1>5, <2>1
  <2>3. ASSUME NEW t \in DOMAIN stored'
        PROVE  /\ stored'[t] = StoredRow(stored'[t].blob)
               /\ stored'[t].blob.sequence = t
               /\ stored'[t].blob.prev_hash =
                      IF t = 0 THEN Genesis ELSE Hash(stored'[t - 1].blob)
    <3>1. t \in DOMAIN stored /\ (t # 0 => t - 1 \in DOMAIN stored')
      BY <1>3, <1>4, <1>5
    <3> QED
      BY <1>4, <3>1 DEF LogIsIntact
  <2>4. LogIsIntact'
    BY <1>1, <1>3, <2>2, <2>3 DEF LogIsIntact
  <2> QED
    BY <1>2, <2>4 DEF Hit
<1>6. CASE s # n - 1
  <2> HIDE DEF n
  <2>1. PICK L : ChainOf(L, n) /\ Holds(L, 0 .. n - 1)
    BY IntactChain DEF TableInv, n
  <2>2. Holds(L, DOMAIN stored)'
    BY <1>3, <1>4, <2>1 DEF Holds
  <2>3. PICK m \in Nat : m = n
    BY <1>3
  <2>4. Gap(L, m, d)'
    BY <1>1, <1>2, <1>3, <1>4, <1>6, <2>2, <2>3 DEF Gap
  <2> QED
    BY <2>1, <2>3, <2>4 DEF Hit
<1> QED
  BY <1>5, <1>6

LEMMA HitMove ==
    ASSUME TableInv, LogIsIntact, damage = {},
           NEW s \in DOMAIN stored, Move(s),
           NEW d, damage' = {d}
    PROVE  Hit(d)'
<1>1. PICK t \in (0 .. MaxRows - 1) \ DOMAIN stored :
        /\ Damage("move", <<s, t>>) /\ dropped' = dropped
        /\ stored' = [u \in (DOMAIN stored \ {s}) \cup {t} |->
                        IF u = t THEN stored[s] ELSE stored[u]]
  BY DEF Move
<1>2. d[1] = "move" /\ d[2] = <<s, t>>
  BY <1>1, OneStatement
<1>3a. PICK n \in Nat : \E L : /\ ChainOf(L, n) /\ Holds(L, 0 .. n - 1)
                               /\ DOMAIN stored = 0 .. n - 1 /\ ~dropped
  <2>1. RowCount \in Nat /\ DOMAIN stored = 0 .. RowCount - 1 /\ ~dropped
    BY TableIsFinite DEF TableInv, LogIsIntact
  <2>2. PICK L : ChainOf(L, RowCount) /\ Holds(L, 0 .. RowCount - 1)
    BY IntactChain DEF TableInv
  <2> QED
    BY <2>1, <2>2
<1>3. PICK L : /\ ChainOf(L, n) /\ Holds(L, 0 .. n - 1)
               /\ DOMAIN stored = 0 .. n - 1 /\ ~dropped
  BY <1>3a
<1>4. t \in Nat /\ t >= n
  BY <1>3, BoundsAssumption
<1>5. /\ DOMAIN stored' = ((0 .. n - 1) \ {s}) \cup {t}
      /\ stored'[t] = stored[s]
      /\ \A u \in (0 .. n - 1) \ {s} : stored'[u] = stored[u]
  BY <1>1, <1>3
<1>6. Holds(L, (0 .. n - 1) \ {s})' /\ stored'[t] = StoredRow(L[s])
  BY <1>3, <1>5 DEF Holds
<1>7. Moved(L, n, d)'
  BY <1>1, <1>2, <1>3, <1>4, <1>5, <1>6 DEF Moved
<1> QED
  BY <1>3, <1>4, <1>7 DEF Hit

\* Hashes can be computed from the first row on.
LEMMA LinksExist ==
    ASSUME NEW n \in Nat, NEW bodies
    PROVE  \E link : link = [t \in 0 .. n - 1 |->
                IF t = 0 THEN Genesis
                ELSE Hash([sequence |-> t - 1, prev_hash |-> link[t - 1],
                           body |-> bodies[t - 1]])]
<1> DEFINE Next_(t, g) == IF t = 0 THEN Genesis
                          ELSE Hash([sequence |-> t - 1, prev_hash |-> g[t - 1],
                                     body |-> bodies[t - 1]])
           Linking(g, m) == g = [t \in 0 .. m - 1 |-> Next_(t, g)]
           Bad == {m \in Nat : ~ \E g : Linking(g, m)}
<1>1. SUFFICES ASSUME Bad # {} PROVE FALSE
  OBVIOUS
<1>2. PICK j \in Bad : \A k \in Bad : ~(k < j)
  BY <1>1, LeastNumber
<1>3. CASE j = 0
  <2> DEFINE g == [t \in 0 .. j - 1 |-> Genesis]
  <2>1. g = [t \in 0 .. j - 1 |-> Next_(t, g)]
    <3>1. 0 .. j - 1 = {}
      BY <1>3
    <3> QED
      BY <3>1
  <2> QED
    BY <1>2, <2>1
<1>4. CASE j # 0
  <2>1. j - 1 \in Nat /\ j - 1 \notin Bad
    BY <1>2, <1>4
  <2>2. PICK g : Linking(g, j - 1)
    BY <2>1
  <2> DEFINE h == [t \in 0 .. j - 1 |-> Next_(t, g)]
  <2>3. ASSUME NEW t \in 0 .. j - 1, t # 0 PROVE h[t - 1] = g[t - 1]
    <3>1. t - 1 \in 0 .. (j - 1) - 1 /\ t - 1 \in 0 .. j - 1
      BY <1>2, <2>3
    <3>2. g[t - 1] = Next_(t - 1, g)
      BY <2>2, <3>1
    <3>3. h[t - 1] = Next_(t - 1, g)
      BY <3>1
    <3> QED
      BY <3>2, <3>3
  <2>4. \A t \in 0 .. j - 1 : Next_(t, h) = Next_(t, g)
    <3> SUFFICES ASSUME NEW t \in 0 .. j - 1 PROVE Next_(t, h) = Next_(t, g)
      OBVIOUS
    <3> HIDE DEF h
    <3>1. CASE t = 0
      BY <3>1
    <3>2. CASE t # 0
      <4>1. h[t - 1] = g[t - 1]
        BY <2>3, <3>2
      <4> QED
        BY <3>2, <4>1
    <3> QED
      BY <3>1, <3>2
  <2>5. h = [t \in 0 .. j - 1 |-> Next_(t, h)]
    BY <2>4
  <2> QED
    BY <1>2, <2>5
<1> QED
  BY <1>3, <1>4

\* Computed again from any row on, the hashes are those of a log that is
\* intact.
LEMMA HitRewrite ==
    ASSUME TableInv, LogIsIntact, damage = {},
           NEW s \in DOMAIN stored, Rewrite(s),
           NEW d, damage' = {d}
    PROVE  Hit(d)'
<1>1. PICK new \in Body :
        LET Rewritten(t, link) ==
                [sequence |-> t, prev_hash |-> link,
                 body |-> IF t = s THEN new ELSE stored[t].blob.body]
            link[t \in DOMAIN stored] ==
                IF t = 0 THEN Genesis ELSE Hash(Rewritten(t - 1, link[t - 1]))
        IN  /\ Damage("rewrite", s) /\ dropped' = dropped
            /\ stored' = [t \in DOMAIN stored |-> StoredRow(Rewritten(t, link[t]))]
  BY DEF Rewrite
<1> DEFINE bodies == [t \in DOMAIN stored |-> IF t = s THEN new ELSE stored[t].blob.body]
           Rewritten(t, link) ==
                [sequence |-> t, prev_hash |-> link,
                 body |-> IF t = s THEN new ELSE stored[t].blob.body]
           link[t \in DOMAIN stored] ==
                IF t = 0 THEN Genesis ELSE Hash(Rewritten(t - 1, link[t - 1]))
           n == RowCount
<1>2. /\ Damage("rewrite", s) /\ dropped' = dropped
      /\ stored' = [t \in DOMAIN stored |-> StoredRow(Rewritten(t, link[t]))]
  BY <1>1
<1>3. n \in Nat /\ DOMAIN stored = 0 .. n - 1 /\ ~dropped
  BY TableIsFinite DEF TableInv, LogIsIntact
<1>4. \A t \in DOMAIN stored :
        link[t] = IF t = 0 THEN Genesis ELSE Hash(Rewritten(t - 1, link[t - 1]))
  <2>1. PICK g : g = [t \in 0 .. n - 1 |->
                IF t = 0 THEN Genesis
                ELSE Hash([sequence |-> t - 1, prev_hash |-> g[t - 1],
                           body |-> bodies[t - 1]])]
    BY <1>3, LinksExist
  <2>2. \A t \in 0 .. n - 1 : t # 0 => t - 1 \in DOMAIN stored
    BY <1>3
  <2>3. \A t \in 0 .. n - 1 : t # 0 =>
            Rewritten(t - 1, g[t - 1]) = [sequence |-> t - 1, prev_hash |-> g[t - 1],
                                          body |-> bodies[t - 1]]
    BY <2>2
  <2>4. g = [t \in DOMAIN stored |->
                IF t = 0 THEN Genesis ELSE Hash(Rewritten(t - 1, g[t - 1]))]
    <3> HIDE DEF bodies, Rewritten
    <3> QED
      BY <1>3, <2>1, <2>3
  <2>5. link = [t \in DOMAIN stored |->
                IF t = 0 THEN Genesis ELSE Hash(Rewritten(t - 1, link[t - 1]))]
    <3> HIDE DEF Rewritten
    <3> QED
      BY <2>4
  <2> HIDE DEF link
  <2> QED
    BY <2>5
<1> HIDE DEF link
<1>5. \A t \in DOMAIN stored :
        LET row == Rewritten(t, link[t])
        IN  /\ stored'[t] = StoredRow(row)
            /\ row.sequence = t
            /\ row.prev_hash = IF t = 0 THEN Genesis ELSE Hash(Rewritten(t - 1, link[t - 1]))
  BY <1>2, <1>4
<1>6. DOMAIN stored' = 0 .. n - 1 /\ RowCount' = n
  BY <1>2, <1>3 DEF RowCount
<1> HIDE DEF Rewritten
<1>7. ASSUME NEW t \in DOMAIN stored'
      PROVE  /\ stored'[t] = StoredRow(stored'[t].blob)
             /\ stored'[t].blob.sequence = t
             /\ stored'[t].blob.prev_hash =
                    IF t = 0 THEN Genesis ELSE Hash(stored'[t - 1].blob)
  <2>1. t \in DOMAIN stored /\ (t # 0 => t - 1 \in DOMAIN stored)
    BY <1>3, <1>6
  <2>2. \A u \in DOMAIN stored :
            /\ SameRow(stored'[u].blob, Rewritten(u, link[u]))
            /\ Hash(stored'[u].blob) = Hash(Rewritten(u, link[u]))
            /\ StoredRow(stored'[u].blob) = stored'[u]
    <3> SUFFICES ASSUME NEW u \in DOMAIN stored
                 PROVE  /\ SameRow(stored'[u].blob, Rewritten(u, link[u]))
                        /\ Hash(stored'[u].blob) = Hash(Rewritten(u, link[u]))
                        /\ StoredRow(stored'[u].blob) = stored'[u]
      OBVIOUS
    <3> DEFINE row == Rewritten(u, link[u])
    <3>1. stored'[u] = StoredRow(row)
      BY <1>5
    <3> HIDE DEF row
    <3>2. SameRow(stored'[u].blob, row)
      BY <3>1 DEF StoredRow, SameRow
    <3>3. Hash(stored'[u].blob) = Hash(row)
      BY <3>2 DEF SameRow, Hash
    <3>4. StoredRow(stored'[u].blob) = stored'[u]
      BY <3>1, <3>2, <3>3 DEF StoredRow, SameRow
    <3> QED
      BY <3>2, <3>3, <3>4 DEF row
  <2> QED
    BY <1>5, <2>1, <2>2 DEF SameRow
<1>8. LogIsIntact'
  BY <1>2, <1>3, <1>6, <1>7 DEF LogIsIntact
<1>9. d[1] = "rewrite" /\ DOMAIN stored' # {}
  BY <1>2, OneStatement
<1> QED
  BY <1>8, <1>9 DEF Hit

LEMMA HitDrop ==
    ASSUME TableInv, damage = {}, DropTable, NEW d, damage' = {d}
    PROVE  Hit(d)'
<1>1. Damage("drop", None) /\ dropped' = TRUE
  BY DEF DropTable
<1>2. d[1] = "drop"
  BY <1>1, OneStatement
<1> QED
  BY <1>1, <1>2 DEF Hit

\* The first damaging statement leaves the table hit.
LEMMA DamageHits ==
    ASSUME TableInv, damage = {} => LogIsIntact, DamageTable,
           NEW d, damage' = {d}
    PROVE  Hit(d)'
<1>1. PICK statement, s : Damage(statement, s)
  BY DEF DamageTable, DropTable, Garble, EditBlob, Edit, EditColumn, Delete, Move, Rewrite
<1>2. damage = {}
  <2>1. damage' = damage \cup {<<statement, s>>} /\ <<statement, s>> \notin damage
    BY <1>1 DEF Damage
  <2> QED
    BY <2>1
<1> QED
  BY <1>2, HitBlob, HitColumn, HitDelete, HitMove, HitRewrite, HitDrop DEF DamageTable

-----------------------------------------------------------------------------

LEMMA BlobIsNotAbsent ==
    ASSUME TableInv, NEW s \in DOMAIN stored
    PROVE  stored[s].blob # Absent
<1> DEFINE blob == stored[s].blob
<1>1. blob = Garbled \/ BlobRecord(blob)
  BY DEF TableInv, StoredRecord
<1> HIDE DEF blob
<1>2. "sequence" \in DOMAIN blob
  <2>1. CASE blob = Garbled
    BY <2>1 DEF Garbled
  <2>2. CASE BlobRecord(blob)
    <3>1. blob = [field \in {"sequence", "prev_hash", "body", "row_hash"} |-> blob[field]]
      BY <2>2 DEF BlobRecord
    <3> QED
      BY <3>1
  <2> QED
    BY <1>1, <2>1, <2>2
<1>3. DOMAIN Absent = {}
  BY DEF Absent
<1> QED
  BY <1>2, <1>3 DEF blob

\* An append made the row after the first n, and nothing else.
Extends(M, L, n) ==
    /\ ChainOf(M, n + 1) /\ \A i \in 0 .. n - 1 : M[i] = L[i]
    /\ n \notin DOMAIN stored /\ DOMAIN stored' = DOMAIN stored \cup {n}
    /\ stored'[n] = StoredRow(M[n])
    /\ \A t \in DOMAIN stored : stored'[t] = stored[t]
    /\ dropped' = dropped

\* What is appended to a table whose tail is the last row of a chain is the
\* next row of that chain.
LEMMA AppendExtends ==
    ASSUME TableInv, NEW body \in Body, Append_(body), DOMAIN stored # {},
           NEW n \in Nat, n # 0, NEW L, ChainOf(L, n),
           SameRow(stored[LastColumn].blob, L[n - 1])
    PROVE  \E M : Extends(M, L, n)
<1> DEFINE row == NextRow(TailBlob, body)
           M == [i \in 0 .. n |-> IF i = n THEN row ELSE L[i]]
<1>1. /\ stored' = [s \in DOMAIN stored \cup {row.sequence} |->
                      IF s = row.sequence THEN StoredRow(row) ELSE stored[s]]
      /\ row.sequence \notin DOMAIN stored /\ dropped' = dropped
  BY DEF Append_
<1>2. row.sequence = n /\ row.prev_hash = Hash(L[n - 1])
  <2>1. LastColumn \in DOMAIN stored /\ stored # <<>>
    BY LastColumnIsInTable DEF TableInv
  <2>2. TailBlob = stored[LastColumn].blob /\ TailBlob # Absent
    BY <2>1, BlobIsNotAbsent DEF TailBlob
  <2>3. TailBlob.sequence = L[n - 1].sequence /\ Hash(TailBlob) = Hash(L[n - 1])
    BY <2>2 DEF SameRow, Hash
  <2>4. L[n - 1].sequence = n - 1
    BY DEF ChainOf
  <2> HIDE DEF M
  <2> QED
    BY <2>2, <2>3, <2>4 DEF NextRow
<1> HIDE DEF row
<1>3. M[n] = row /\ \A i \in 0 .. n - 1 : M[i] = L[i]
  OBVIOUS
<1> HIDE DEF M
<1>4. ASSUME NEW i \in 0 .. n
      PROVE  /\ M[i].sequence = i
             /\ M[i].prev_hash = IF i = 0 THEN Genesis ELSE Hash(M[i - 1])
  <2>1. i # 0 => i - 1 \in 0 .. n - 1
    OBVIOUS
  <2> QED
    BY <1>2, <1>3, <2>1 DEF ChainOf
<1>5. ChainOf(M, n + 1)
  BY <1>4 DEF ChainOf
<1>6. Extends(M, L, n)
  BY <1>1, <1>2, <1>3, <1>5 DEF Extends
<1> QED
  BY <1>6

\* Of numbers up to n - 1, all but one inner one, the last is n - 1.
LEMMA LastOf ==
    ASSUME TableInv, NEW c \in DOMAIN stored, \A t \in DOMAIN stored : t <= c
    PROVE  LastColumn = c
<1>1. DOMAIN stored \subseteq Nat
  BY TableIsFinite DEF TableInv
<1> QED
  BY <1>1, LastColumnIsInTable DEF TableInv

LEMMA AppendInPlace ==
    ASSUME TableInv, NEW body \in Body, Append_(body),
           NEW d, NEW n \in Nat, NEW L, ChainOf(L, n), InPlace(L, n, d)
    PROVE  AtRow(d)'
<1>1. /\ ~dropped /\ d[2] \in 0 .. n - 1 /\ DOMAIN stored = 0 .. n - 1
      /\ Holds(L, (0 .. n - 1) \ {d[2]})
      /\ Left(d[1], L[d[2]], stored[d[2]])
  BY DEF InPlace
<1>2. n # 0 /\ n - 1 \in DOMAIN stored /\ LastColumn = n - 1
  BY <1>1, LastOf
<1>3. SameRow(stored[n - 1].blob, L[n - 1])
  <2>1. CASE d[2] # n - 1
    BY <1>1, <1>2, <2>1, ChainRow DEF Holds
  <2>2. CASE d[2] = n - 1
    <3>1. Parses(stored[n - 1].blob)
      <4>1. TailBlob = stored[n - 1].blob
        BY <1>2 DEF TailBlob
      <4> QED
        BY <1>2, <4>1, BlobIsNotAbsent DEF Append_
    <3>2. SameRow(StoredRow(L[n - 1]).blob, L[n - 1])
      BY <1>2, <1>1, ChainRow
    <3>3. CASE stored[n - 1] = [StoredRow(L[n - 1]) EXCEPT !.blob.row_hash = Absent]
      BY <3>2, <3>3 DEF StoredRow, SameRow
    <3>4. CASE stored[n - 1].blob = StoredRow(L[n - 1]).blob
      BY <3>2, <3>4
    <3> QED
      BY <1>1, <2>2, <3>1, <3>3, <3>4 DEF Left
  <2> QED
    BY <2>1, <2>2
<1>extended. PICK M : Extends(M, L, n)
  <2>1. DOMAIN stored # {} /\ SameRow(stored[LastColumn].blob, L[n - 1])
    BY <1>2, <1>3
  <2> QED
    BY <1>2, <2>1, AppendExtends
<1>4. /\ ChainOf(M, n + 1) /\ \A i \in 0 .. n - 1 : M[i] = L[i]
      /\ DOMAIN stored' = DOMAIN stored \cup {n}
      /\ stored'[n] = StoredRow(M[n])
      /\ \A t \in DOMAIN stored : stored'[t] = stored[t]
      /\ dropped' = dropped
  BY <1>extended DEF Extends
<1>5. DOMAIN stored' = 0 .. (n + 1) - 1 /\ d[2] \in 0 .. (n + 1) - 1
  BY <1>1, <1>4
<1>6. Holds(M, (0 .. (n + 1) - 1) \ {d[2]})'
  BY <1>1, <1>4 DEF Holds
<1>7. Left(d[1], M[d[2]], stored'[d[2]])
  BY <1>1, <1>4
<1>8. InPlace(M, n + 1, d)'
  BY <1>1, <1>4, <1>5, <1>6, <1>7 DEF InPlace
<1> QED
  BY <1>4, <1>8 DEF AtRow

\* A table in which a row is not linked stays one: what is appended has a
\* column of its own, after those.
LEMMA AppendSevered ==
    ASSUME TableInv, NEW body \in Body, Append_(body), NEW i, Severed(i, i)
    PROVE  /\ Severed(i, i)' /\ (Numbered => Numbered')
           /\ stored'[i] = stored[i]
<1> DEFINE row == NextRow(TailBlob, body)
<1>1. /\ stored' = [s \in DOMAIN stored \cup {row.sequence} |->
                      IF s = row.sequence THEN StoredRow(row) ELSE stored[s]]
      /\ row.sequence \notin DOMAIN stored /\ dropped' = dropped
      /\ TailBlob # Absent => Parses(TailBlob)
  BY DEF Append_
<1>2. /\ ~dropped /\ Unparsed = {} /\ i \in Nat /\ 0 .. i - 1 \subseteq DOMAIN stored
      /\ i \in DOMAIN stored /\ ~Follows(i, i) /\ \A j \in 0 .. i - 1 : Follows(j, j)
  BY DEF Severed
<1>3. /\ LastColumn \in DOMAIN stored /\ \A t \in DOMAIN stored : t <= LastColumn
      /\ stored # <<>> /\ TailBlob = stored[LastColumn].blob /\ TailBlob # Absent
  <2>1. LastColumn \in DOMAIN stored /\ \A t \in DOMAIN stored : t <= LastColumn
    BY <1>2, LastColumnIsInTable DEF TableInv
  <2>2. stored # <<>>
    BY <1>2
  <2> QED
    BY <2>1, <2>2, BlobIsNotAbsent DEF TailBlob
<1>4. TailBlob.sequence \in Nat
  BY <1>1, <1>3 DEF TableInv, StoredRecord, BlobRecord, Parses, IsAuditRow
<1>5. row.sequence = TailBlob.sequence + 1 /\ row.prev_hash = Hash(TailBlob)
  BY <1>3 DEF NextRow
<1> HIDE DEF row
<1>6. /\ DOMAIN stored' = DOMAIN stored \cup {row.sequence}
      /\ stored'[row.sequence] = StoredRow(row)
      /\ \A t \in DOMAIN stored : stored'[t] = stored[t]
  BY <1>1
<1>7. Parses(StoredRow(row).blob)
  <2> DEFINE blob == StoredRow(row).blob
  <2>1. /\ blob.sequence = row.sequence /\ blob.prev_hash = row.prev_hash
        /\ blob.row_hash = Hash(blob)
    BY DEF StoredRow, Hash
  <2>2. blob.sequence # 0 /\ blob.prev_hash # Genesis /\ blob # Garbled
    BY <1>4, <1>5, <2>1, NoneAssumption DEF Genesis, Hash, Garbled
  <2> HIDE DEF blob
  <2> QED
    BY <2>1, <2>2 DEF Parses, IsAuditRow, ClaimAgrees, blob
<1>8. Unparsed' = {}
  BY <1>2, <1>6, <1>7 DEF Unparsed
<1>9. \A j \in 0 .. i : Follows(j, j)' = Follows(j, j)
  <2> SUFFICES ASSUME NEW j \in 0 .. i PROVE Follows(j, j)' = Follows(j, j)
    OBVIOUS
  <2>1. stored'[j] = stored[j] /\ (j # 0 => stored'[j - 1] = stored[j - 1])
    <3>1. j \in DOMAIN stored /\ (j # 0 => j - 1 \in DOMAIN stored)
      BY <1>2
    <3> QED
      BY <1>6, <3>1
  <2> QED
    BY <2>1 DEF Follows
<1>10. Severed(i, i)'
  <2>1. \A u \in DOMAIN stored' : u <= i => u \in (0 .. i - 1) \cup {i}
    <3>1. \A u \in DOMAIN stored' : u \in Nat
      BY <1>4, <1>5, <1>6, TableIsFinite DEF TableInv
    <3> QED
      BY <1>2, <3>1
  <2> QED
    BY <1>1, <1>2, <1>6, <1>8, <1>9, <2>1 DEF Severed
<1>11. ASSUME Numbered PROVE Numbered'
  <2>1. PICK n \in Nat : n = RowCount /\ DOMAIN stored = 0 .. n - 1
    BY <1>11, TableIsFinite DEF Numbered, TableInv
  <2>2. LastColumn = n - 1 /\ TailBlob.sequence = n - 1
    BY <1>3, <1>11, <2>1, LastOf DEF Numbered
  <2>3. row.sequence = n
    BY <1>5, <2>1, <2>2
  <2>4. DOMAIN stored' = 0 .. (n + 1) - 1
    BY <1>6, <2>1, <2>3
  <2>5. RowCount' = n + 1
    BY <2>4, FS_Interval DEF RowCount
  <2>6. ASSUME NEW s \in DOMAIN stored' PROVE stored'[s].blob.sequence = s
    <3>1. CASE s = n
      BY <1>6, <2>3, <3>1 DEF StoredRow
    <3>2. CASE s # n
      BY <1>6, <1>11, <2>3, <3>2 DEF Numbered
    <3> QED
      BY <3>1, <3>2
  <2> QED
    BY <2>4, <2>5, <2>6 DEF Numbered
<1> QED
  BY <1>2, <1>6, <1>10, <1>11

LEMMA AppendForged ==
    ASSUME TableInv, NEW body \in Body, Append_(body), NEW d, ForgedRow(d)
    PROVE  ForgedRow(d)'
<1>1. CASE d[1] = "forge number" /\ Severed(d[2], d[2]) /\ stored[d[2]].blob.sequence # d[2]
  <2>1. Severed(d[2], d[2])' /\ stored'[d[2]] = stored[d[2]]
    BY <1>1, AppendSevered
  <2> QED
    BY <1>1, <2>1 DEF ForgedRow
<1>2. CASE d[1] = "forge link" /\ Severed(d[2], d[2]) /\ Numbered
  BY <1>2, AppendSevered DEF ForgedRow
<1>3. CASE d[1] = "forge body" /\ Severed(d[2] + 1, d[2] + 1) /\ Numbered
  BY <1>3, AppendSevered DEF ForgedRow
<1> QED
  BY <1>1, <1>2, <1>3 DEF ForgedRow

LEMMA AppendGap ==
    ASSUME TableInv, NEW body \in Body, Append_(body),
           NEW d, NEW n \in Nat, NEW L, ChainOf(L, n), Gap(L, n, d)
    PROVE  Hit(d)'
<1>1. /\ ~dropped /\ d[1] = "delete" /\ d[2] \in 0 .. n - 1 /\ d[2] # n - 1
      /\ DOMAIN stored = (0 .. n - 1) \ {d[2]} /\ Holds(L, DOMAIN stored)
  BY DEF Gap
<1>2. n # 0 /\ n - 1 \in DOMAIN stored /\ LastColumn = n - 1
  BY <1>1, LastOf
<1>3. SameRow(stored[n - 1].blob, L[n - 1])
  BY <1>1, <1>2, ChainRow DEF Holds
<1>extended. PICK M : Extends(M, L, n)
  <2>1. DOMAIN stored # {} /\ SameRow(stored[LastColumn].blob, L[n - 1])
    BY <1>2, <1>3
  <2> QED
    BY <1>2, <2>1, AppendExtends
<1>4. /\ ChainOf(M, n + 1) /\ \A i \in 0 .. n - 1 : M[i] = L[i]
      /\ DOMAIN stored' = DOMAIN stored \cup {n}
      /\ stored'[n] = StoredRow(M[n])
      /\ \A t \in DOMAIN stored : stored'[t] = stored[t]
      /\ dropped' = dropped
  BY <1>extended DEF Extends
<1>5. /\ DOMAIN stored' = (0 .. (n + 1) - 1) \ {d[2]}
      /\ d[2] \in 0 .. (n + 1) - 1 /\ d[2] # (n + 1) - 1
  BY <1>1, <1>4
<1>6. Holds(M, DOMAIN stored)'
  BY <1>1, <1>4 DEF Holds
<1>7. Gap(M, n + 1, d)'
  BY <1>1, <1>4, <1>5, <1>6 DEF Gap
<1> QED
  BY <1>4, <1>7 DEF Hit

\* The row that follows the one moved is there, unless that was the last.
LEMMA AppendMoved ==
    ASSUME TableInv, NEW body \in Body, Append_(body),
           NEW d, NEW n \in Nat, NEW L, ChainOf(L, n), Moved(L, n, d)
    PROVE  Hit(d)'
<1> DEFINE s == d[2][1]
           t == d[2][2]
<1>1. /\ ~dropped /\ d[1] = "move" /\ s \in 0 .. n - 1 /\ t \in Nat /\ t >= n
      /\ DOMAIN stored = ((0 .. n - 1) \ {s}) \cup {t}
      /\ Holds(L, (0 .. n - 1) \ {s}) /\ stored[t] = StoredRow(L[s])
  BY DEF Moved
<1> HIDE DEF s, t
<1> DEFINE k == s + 1
<1>2. k \in Nat /\ k # 0 /\ k - 1 = s /\ k <= n /\ ChainOf(L, k)
  BY <1>1 DEF ChainOf
<1>3. LastColumn = t
  BY <1>1, LastOf
<1>4. SameRow(stored[t].blob, L[k - 1])
  BY <1>1, <1>2, ChainRow
<1> HIDE DEF k
<1>extended. PICK M : Extends(M, L, k)
  <2>1. DOMAIN stored # {}
    BY <1>1
  <2>2. SameRow(stored[LastColumn].blob, L[k - 1])
    BY <1>3, <1>4
  <2> QED
    BY <1>2, <2>1, <2>2, AppendExtends
<1>5. /\ ChainOf(M, k + 1) /\ \A i \in 0 .. k - 1 : M[i] = L[i]
      /\ k \notin DOMAIN stored /\ DOMAIN stored' = DOMAIN stored \cup {k}
      /\ stored'[k] = StoredRow(M[k])
      /\ \A u \in DOMAIN stored : stored'[u] = stored[u]
      /\ dropped' = dropped
  BY <1>extended DEF Extends
<1>6. k = n /\ t >= n + 1
  BY <1>1, <1>2, <1>5
<1>7. /\ DOMAIN stored' = ((0 .. (n + 1) - 1) \ {s}) \cup {t}
      /\ s \in 0 .. (n + 1) - 1
  <2>1. /\ s \in 0 .. (n + 1) - 1 /\ s # n
        /\ 0 .. (n + 1) - 1 = (0 .. n - 1) \cup {n}
    BY <1>1
  <2>2. DOMAIN stored' = ((0 .. n - 1) \ {s}) \cup {t} \cup {n}
    BY <1>1, <1>5, <1>6
  <2> QED
    BY <2>1, <2>2, Zenon
<1>8. Holds(M, (0 .. (n + 1) - 1) \ {s})' /\ stored'[t] = StoredRow(M[s])
  BY <1>1, <1>2, <1>5, <1>6 DEF Holds
<1>9. Moved(M, n + 1, d)'
  BY <1>1, <1>5, <1>6, <1>7, <1>8 DEF Moved, s, t
<1>10. n + 1 \in Nat /\ ChainOf(M, n + 1)
  BY <1>5, <1>6
<1> QED
  BY <1>9, <1>10, Zenon DEF Hit

LEMMA AppendKeepsHit ==
    ASSUME TableInv, NEW body \in Body, Append_(body), NEW d, Hit(d)
    PROVE  Hit(d)'
<1>1. ~dropped
  BY DEF Append_
<1>2. CASE LogIsIntact /\ d[1] \in {"delete", "rewrite"}
  <2>1. LogIsIntact' /\ DOMAIN stored' # {}
    BY <1>2, AppendToIntact DEF Append_
  <2> QED
    BY <1>2, <2>1 DEF Hit
<1>3. CASE AtRow(d)
  BY <1>3, AppendInPlace DEF Hit, AtRow
<1>4. CASE \E n \in Nat : \E L : ChainOf(L, n) /\ Gap(L, n, d)
  BY <1>4, AppendGap
<1>5. CASE \E n \in Nat : \E L : ChainOf(L, n) /\ Moved(L, n, d)
  BY <1>5, AppendMoved
<1>6. CASE ForgedRow(d)
  BY <1>6, AppendForged DEF Hit
<1> QED
  BY <1>1, <1>2, <1>3, <1>4, <1>5, <1>6 DEF Hit

-----------------------------------------------------------------------------

LEMMA LeastIs ==
    ASSUME NEW S \in SUBSET Nat, NEW m \in S, \A t \in S : m <= t
    PROVE  Least(S) = m
<1> DEFINE Is(s) == \A t \in S : s <= t
<1>1. \A s \in S : Is(s) => s = m
  <2> SUFFICES ASSUME NEW s \in S, Is(s) PROVE s = m
    OBVIOUS
  <2>1. s <= m /\ m <= s /\ s \in Nat /\ m \in Nat
    OBVIOUS
  <2> QED
    BY <2>1
<1> HIDE DEF Is
<1>2. Is(m)
  BY DEF Is
<1>3. Least(S) = CHOOSE s \in S : Is(s)
  BY DEF Least, Is
<1> QED
  BY <1>1, <1>2, <1>3

LEMMA CountFromZero ==
    ASSUME NEW i \in Nat
    PROVE  IsFiniteSet(0 .. i - 1) /\ Cardinality(0 .. i - 1) = i
<1>1. CASE i = 0
  <2>1. 0 .. i - 1 = {}
    BY <1>1
  <2> QED
    BY <1>1, <2>1, FS_EmptySet
<1>2. CASE i # 0
  <2>1. 0 \in Int /\ i - 1 \in Int /\ ~(i - 1 < 0) /\ (i - 1) - 0 + 1 = i
    BY <1>2
  <2> QED
    BY <2>1, FS_Interval
<1> QED
  BY <1>1, <1>2

\* The first i columns, and the one after them.
LEMMA FirstColumns ==
    ASSUME TypeOK, NEW i \in Nat, NEW c \in DOMAIN stored, c >= i,
           0 .. i - 1 \subseteq DOMAIN stored,
           \A u \in DOMAIN stored : u <= c => u \in (0 .. i - 1) \cup {c}
    PROVE  /\ RowCount \in Nat /\ i + 1 <= RowCount /\ Column(i + 1) = c
           /\ \A k \in 1 .. i : Column(k) = k - 1
<1> DEFINE UpTo(x) == {t \in DOMAIN stored : t <= x}
<1>1. /\ IsFiniteSet(DOMAIN stored) /\ DOMAIN stored \subseteq Nat /\ RowCount \in Nat
      /\ c \in Nat
  BY TableIsFinite
<1>2. ASSUME NEW x \in DOMAIN stored PROVE IsFiniteSet(UpTo(x)) /\ UpTo(x) \subseteq DOMAIN stored
  <2>1. UpTo(x) \subseteq DOMAIN stored
    OBVIOUS
  <2> QED
    BY <1>1, <2>1, FS_Subset
<1>3. ASSUME NEW x \in 0 .. i - 1 PROVE x \in DOMAIN stored /\ Cardinality(UpTo(x)) = x + 1
  <2>1. UpTo(x) = 0 .. x
    BY <1>1
  <2>2. Cardinality(0 .. x) = x + 1
    BY FS_Interval
  <2> QED
    BY <2>1, <2>2
<1>4. Cardinality(UpTo(c)) = i + 1
  <2>1. UpTo(c) = (0 .. i - 1) \cup {c} /\ c \notin 0 .. i - 1
    BY <1>1
  <2>2. IsFiniteSet(0 .. i - 1) /\ Cardinality(0 .. i - 1) = i
    BY CountFromZero
  <2> QED
    BY <2>1, <2>2, FS_AddElement
<1>5. ASSUME NEW x \in DOMAIN stored, x > c PROVE Cardinality(UpTo(x)) > i + 1
  <2>1. UpTo(c) \subseteq UpTo(x) /\ x \in UpTo(x) /\ x \notin UpTo(c)
    BY <1>1, <1>5
  <2>2. IsFiniteSet(UpTo(x)) /\ IsFiniteSet(UpTo(c))
    BY <1>2
  <2> HIDE DEF UpTo
  <2>3. Cardinality(UpTo(c)) <= Cardinality(UpTo(x)) /\ Cardinality(UpTo(c)) # Cardinality(UpTo(x))
    BY <2>1, <2>2, FS_Subset
  <2>4. Cardinality(UpTo(x)) \in Nat
    BY <2>2, FS_CardinalityType
  <2> QED
    BY <1>4, <2>3, <2>4
<1>6. i + 1 <= RowCount
  <2>1. UpTo(c) \subseteq DOMAIN stored
    BY <1>2
  <2> HIDE DEF UpTo
  <2>2. Cardinality(UpTo(c)) <= RowCount
    BY <1>1, <2>1, FS_Subset DEF RowCount
  <2> QED
    BY <1>4, <2>2
<1>7. ASSUME NEW k \in 1 .. i + 1 PROVE Column(k) = IF k = i + 1 THEN c ELSE k - 1
  <2>1. k \in 1 .. RowCount
    BY <1>1, <1>6
  <2>2. PICK x \in DOMAIN stored : x = Column(k) /\ Cardinality(UpTo(x)) = k
    BY <2>1, ColumnIsInTable
  <2>3. x \in Nat /\ ~(x > c)
    BY <1>1, <1>5, <2>2
  <2>4. CASE x = c
    BY <1>4, <2>2, <2>4
  <2>5. CASE x < c
    <3>1. x \in 0 .. i - 1
      BY <1>1, <2>3, <2>5
    <3>2. x + 1 = k
      BY <1>3, <2>2, <3>1
    <3> HIDE DEF UpTo
    <3> QED
      BY <2>2, <3>1, <3>2
  <2> QED
    BY <1>1, <2>3, <2>4, <2>5
<1> QED
  BY <1>1, <1>6, <1>7

-----------------------------------------------------------------------------

\* What is read is what the blobs say.
LEMMA RowRead ==
    ASSUME TypeOK, NEW k \in 1 .. RowCount, NEW row, SameRow(stored[Column(k)].blob, row)
    PROVE  SameRow(AllRows[k], row)
<1>1. AllRows[k] = Contents(stored[Column(k)].blob)
  BY DEF AllRows
<1> QED
  BY <1>1 DEF Contents, SameRow

LEMMA LengthRead ==
    ASSUME TypeOK
    PROVE  RowCount \in Nat /\ Len(AllRows) = RowCount
<1>1. RowCount \in Nat
  BY TableIsFinite
<1> QED
  BY <1>1 DEF AllRows

\* A row that follows its predecessor in the chain is linked to it.
LEMMA ChainIsLinked ==
    ASSUME NEW n \in Nat, NEW L, ChainOf(L, n), NEW chain, NEW i \in 1 .. n,
           SameRow(chain[i], L[i - 1]),
           i # 1 => SameRow(chain[i - 1], L[i - 2])
    PROVE  Linked(chain, i)
<1>1. i - 1 \in 0 .. n - 1 /\ (i = 1 <=> i - 1 = 0) /\ (i - 1) - 1 = i - 2
  OBVIOUS
<1>2. /\ L[i - 1].sequence = i - 1
      /\ L[i - 1].prev_hash = IF i = 1 THEN Genesis ELSE Hash(L[i - 2])
  BY <1>1 DEF ChainOf
<1> QED
  BY <1>2 DEF Linked, SameRow, Hash

LEMMA ReadsUnreadable ==
    ASSUME TableInv, NEW d, NEW n \in Nat, NEW L, ChainOf(L, n), InPlace(L, n, d),
           d[1] \in Unreadable
    PROVE  /\ Unparsed = {d[2]} /\ ~dropped
           /\ ~Parses(stored[d[2]].blob)
           /\ d[1] = "garble" => stored[d[2]].blob = Garbled
           /\ d[1] = "edit" => IsAuditRow(stored[d[2]].blob)
           /\ d[1] \in Misplacing => ~IsAuditRow(stored[d[2]].blob)
<1>1. /\ ~dropped /\ d[2] \in 0 .. n - 1 /\ DOMAIN stored = 0 .. n - 1
      /\ Holds(L, (0 .. n - 1) \ {d[2]})
      /\ Left(d[1], L[d[2]], stored[d[2]])
  BY DEF InPlace
<1>2. \A t \in (0 .. n - 1) \ {d[2]} : Parses(stored[t].blob)
  BY <1>1, ChainRow DEF Holds
<1>3. /\ ~Parses(stored[d[2]].blob)
      /\ d[1] = "garble" => stored[d[2]].blob = Garbled
      /\ d[1] = "edit" => IsAuditRow(stored[d[2]].blob)
      /\ d[1] \in Misplacing => ~IsAuditRow(stored[d[2]].blob)
  BY <1>1 DEF Left, Unreadable, Unmirroring
<1> QED
  BY <1>1, <1>2, <1>3 DEF Unparsed

LEMMA ReadsInPlace ==
    ASSUME TableInv, NEW d, NEW n \in Nat, NEW L, ChainOf(L, n), InPlace(L, n, d),
           d[1] \notin Unreadable
    PROVE  /\ Unparsed = {} /\ ~dropped /\ RowCount = n /\ d[2] \in 0 .. n - 1
           /\ Len(AllRows) = n /\ Broken(AllRows) = {} /\ BeginsLog(AllRows)
           /\ d[1] \in {"unclaim"} \cup Unmirroring
<1>1. /\ ~dropped /\ d[2] \in 0 .. n - 1 /\ DOMAIN stored = 0 .. n - 1
      /\ Holds(L, (0 .. n - 1) \ {d[2]})
      /\ Left(d[1], L[d[2]], stored[d[2]])
  BY DEF InPlace
<1>2. ASSUME NEW t \in 0 .. n - 1
      PROVE  Parses(stored[t].blob) /\ SameRow(stored[t].blob, L[t])
  <2> DEFINE blob == StoredRow(L[t]).blob
  <2>1. Parses(blob) /\ IsAuditRow(blob) /\ SameRow(blob, L[t])
    BY ChainRow
  <2>2. CASE stored[t].blob = blob
    BY <2>1, <2>2
  <2>3. CASE stored[t] = [StoredRow(L[t]) EXCEPT !.blob.row_hash = Absent]
    <3>1. /\ stored[t].blob.sequence = blob.sequence
          /\ stored[t].blob.prev_hash = blob.prev_hash
          /\ stored[t].blob.body = blob.body /\ stored[t].blob.row_hash = Absent
      BY <2>3 DEF StoredRow
    <3>2. L[t].sequence = t
      BY DEF ChainOf
    <3>3. stored[t].blob # Garbled
      BY <2>1, <3>1, <3>2, NoneAssumption DEF Garbled, SameRow
    <3> HIDE DEF blob
    <3> QED
      BY <2>1, <3>1, <3>3 DEF Parses, IsAuditRow, ClaimAgrees, SameRow
  <2>4. t # d[2] => stored[t] = StoredRow(L[t])
    BY <1>1 DEF Holds
  <2> QED
    BY <1>1, <2>2, <2>3, <2>4 DEF Left
<1>3. RowCount = n /\ \A k \in 1 .. n : Column(k) = k - 1
  BY <1>1, DenseColumns DEF TableInv
<1>4. Len(AllRows) = n
  BY <1>3, LengthRead DEF TableInv
<1>5. \A k \in 1 .. n : SameRow(AllRows[k], L[k - 1])
  BY <1>2, <1>3, RowRead DEF TableInv
<1>6. \A k \in 1 .. n : SameRow(AllRows[k], stored[k - 1].blob)
  BY <1>2, <1>5 DEF SameRow
<1>7. Broken(AllRows) = {}
  <2>1. ASSUME NEW i \in 1 .. n PROVE Linked(AllRows, i)
    <3>1. i # 1 => i - 1 \in 1 .. n /\ (i - 1) - 1 = i - 2
      OBVIOUS
    <3> QED
      BY <1>5, <3>1, ChainIsLinked
  <2> QED
    BY <1>4, <2>1 DEF Broken
<1>8. Unparsed = {}
  BY <1>1, <1>2 DEF Unparsed
<1>9. d[1] \in {"unclaim"} \cup Unmirroring
  BY <1>1, Zenon DEF Left
<1>10. BeginsLog(AllRows)
  BY <1>3, <1>4, <1>6 DEF BeginsLog
<1> QED
  BY <1>1, <1>3, <1>4, <1>7, <1>8, <1>9, <1>10

\* The first row that is not linked is the first that is reported.
LEMMA ReadsSevered ==
    ASSUME TableInv, NEW i, NEW c, Severed(i, c)
    PROVE  /\ Unparsed = {} /\ ~dropped
           /\ Len(AllRows) \in Nat /\ AllRows # <<>> /\ i + 1 \in 1 .. Len(AllRows)
           /\ Broken(AllRows) # {} /\ Least(Broken(AllRows)) = i + 1
           /\ AllRows[i + 1].sequence = stored[c].blob.sequence
           /\ Numbered => \A k \in 1 .. Len(AllRows) : AllRows[k].sequence = k - 1
<1>1. /\ ~dropped /\ Unparsed = {} /\ i \in Nat /\ 0 .. i - 1 \subseteq DOMAIN stored
      /\ c \in DOMAIN stored /\ c >= i
      /\ \A u \in DOMAIN stored : u <= c => u \in (0 .. i - 1) \cup {c}
      /\ \A j \in 0 .. i - 1 : Follows(j, j)
      /\ ~Follows(c, i)
  BY DEF Severed
<1>2. /\ RowCount \in Nat /\ i + 1 <= RowCount /\ Column(i + 1) = c
      /\ \A k \in 1 .. i : Column(k) = k - 1
  BY <1>1, FirstColumns DEF TableInv
<1>3. Len(AllRows) = RowCount /\ i + 1 \in 1 .. Len(AllRows)
  BY <1>1, <1>2, LengthRead DEF TableInv
<1>4. ASSUME NEW k \in 1 .. RowCount, NEW u, u = Column(k)
      PROVE  /\ AllRows[k].sequence = stored[u].blob.sequence
             /\ AllRows[k].prev_hash = stored[u].blob.prev_hash
             /\ Hash(AllRows[k]) = Hash(stored[u].blob)
  BY <1>4 DEF AllRows, Contents, Hash
<1>5. ASSUME NEW k \in 1 .. i
      PROVE  /\ AllRows[k].sequence = stored[k - 1].blob.sequence
             /\ AllRows[k].prev_hash = stored[k - 1].blob.prev_hash
             /\ Hash(AllRows[k]) = Hash(stored[k - 1].blob)
  <2>1. k \in 1 .. RowCount /\ k - 1 = Column(k)
    BY <1>1, <1>2
  <2> QED
    BY <1>4, <2>1
<1>6. /\ AllRows[i + 1].sequence = stored[c].blob.sequence
      /\ AllRows[i + 1].prev_hash = stored[c].blob.prev_hash
  BY <1>2, <1>3, <1>4
<1>7. ~Linked(AllRows, i + 1)
  <2>1. i # 0 => Hash(AllRows[i]) = Hash(stored[i - 1].blob)
    BY <1>1, <1>5
  <2>2. (i + 1) - 1 = i /\ (i + 1 = 1 <=> i = 0)
    BY <1>1
  <2> QED
    BY <1>1, <1>6, <2>1, <2>2 DEF Linked, Follows
<1>8. ASSUME NEW k \in 1 .. i PROVE Linked(AllRows, k)
  <2>1. Follows(k - 1, k - 1) /\ (k = 1 <=> k - 1 = 0)
    BY <1>1
  <2>2. k # 1 => k - 1 \in 1 .. i /\ Hash(AllRows[k - 1]) = Hash(stored[(k - 1) - 1].blob)
    <3>1. k # 1 => k - 1 \in 1 .. i
      BY <1>1
    <3> QED
      BY <1>5, <3>1
  <2> QED
    BY <1>5, <2>1, <2>2 DEF Linked, Follows
<1>9. i + 1 \in Broken(AllRows)
  BY <1>3, <1>7 DEF Broken
<1>10. \A k \in Broken(AllRows) : i + 1 <= k
  <2> SUFFICES ASSUME NEW k \in Broken(AllRows), ~(i + 1 <= k) PROVE FALSE
    OBVIOUS
  <2>1. k \in 1 .. i /\ ~Linked(AllRows, k)
    BY <1>1, <1>2, <1>3 DEF Broken
  <2> QED
    BY <1>8, <2>1
<1>11. Least(Broken(AllRows)) = i + 1
  <2>1. Broken(AllRows) \in SUBSET Nat
    BY <1>2, <1>3 DEF Broken
  <2> QED
    BY <1>9, <1>10, <2>1, LeastIs
<1>12. ASSUME Numbered, NEW k \in 1 .. Len(AllRows) PROVE AllRows[k].sequence = k - 1
  <2>1. DOMAIN stored = 0 .. RowCount - 1 /\ \A s \in DOMAIN stored : stored[s].blob.sequence = s
    BY <1>12 DEF Numbered
  <2>2. Column(k) = k - 1 /\ k - 1 \in DOMAIN stored /\ k \in 1 .. RowCount
    BY <1>2, <1>3, <2>1, DenseColumns DEF TableInv
  <2> QED
    BY <1>4, <2>1, <2>2
<1>13. AllRows # <<>>
  BY <1>1, <1>2, <1>3
<1> QED
  BY <1>1, <1>2, <1>3, <1>6, <1>9, <1>11, <1>12, <1>13

\* Where a row is missing, the next one is not linked.
LEMMA MissingSevers ==
    ASSUME TableInv, NEW n \in Nat, NEW L, ChainOf(L, n), NEW s \in 0 .. n - 1, s # n - 1,
           ~dropped, Unparsed = {}, Holds(L, (0 .. n - 1) \ {s}),
           (0 .. n - 1) \ {s} \subseteq DOMAIN stored, s \notin DOMAIN stored
    PROVE  Severed(s, s + 1) /\ stored[s + 1].blob.sequence = s + 1
<1>1. DOMAIN stored \subseteq Nat
  BY TableIsFinite DEF TableInv
<1>2. \A t \in (0 .. n - 1) \ {s} : stored[t] = StoredRow(L[t]) /\ SameRow(stored[t].blob, L[t])
  BY ChainRow DEF Holds
<1>3. ASSUME NEW j \in 0 .. s - 1 PROVE Follows(j, j)
  <2>1. j \in (0 .. n - 1) \ {s} /\ (j # 0 => j - 1 \in (0 .. n - 1) \ {s})
    OBVIOUS
  <2>2. L[j].sequence = j /\ L[j].prev_hash = IF j = 0 THEN Genesis ELSE Hash(L[j - 1])
    BY <2>1 DEF ChainOf
  <2> QED
    BY <1>2, <2>1, <2>2 DEF Follows, SameRow, Hash
<1>4. stored[s + 1].blob.sequence = s + 1
  <2>1. s + 1 \in (0 .. n - 1) \ {s}
    OBVIOUS
  <2> QED
    BY <1>2, <2>1 DEF SameRow, ChainOf
<1>5. ~Follows(s + 1, s)
  BY <1>4 DEF Follows
<1>6. /\ 0 .. s - 1 \subseteq DOMAIN stored /\ s + 1 \in DOMAIN stored /\ s \in Nat
      /\ \A u \in DOMAIN stored : u <= s + 1 => u \in (0 .. s - 1) \cup {s + 1}
  BY <1>1
<1> QED
  BY <1>3, <1>4, <1>5, <1>6 DEF Severed

LEMMA ReadsGap ==
    ASSUME TableInv, NEW d, NEW n \in Nat, NEW L, ChainOf(L, n), Gap(L, n, d)
    PROVE  Severed(d[2], d[2] + 1) /\ stored[d[2] + 1].blob.sequence = d[2] + 1
<1> DEFINE s == d[2]
<1>1. /\ ~dropped /\ s \in 0 .. n - 1 /\ s # n - 1
      /\ DOMAIN stored = (0 .. n - 1) \ {s} /\ Holds(L, (0 .. n - 1) \ {s})
  BY DEF Gap
<1> HIDE DEF s
<1>2. Unparsed = {}
  BY <1>1, ChainRow DEF Holds, Unparsed
<1>3. Severed(s, s + 1) /\ stored[s + 1].blob.sequence = s + 1
  BY <1>1, <1>2, MissingSevers
<1> QED
  BY <1>3 DEF s

\* A row in another column is missed where it was, or, the last one, is read
\* as what it is.
LEMMA ReadsMoved ==
    ASSUME TableInv, NEW d, NEW n \in Nat, NEW L, ChainOf(L, n), Moved(L, n, d)
    PROVE  LET s == d[2][1]
               t == d[2][2]
           IN  /\ Unparsed = {} /\ ~dropped /\ s \in Nat
               /\ Column(s + 1) = IF s = n - 1 THEN t ELSE s + 1
               /\ \A k \in 1 .. s : Column(k) = k - 1 /\ stored[k - 1] = StoredRow(L[k - 1])
               /\ s # n - 1 => Severed(s, s + 1) /\ stored[s + 1].blob.sequence = s + 1
               /\ s = n - 1 => /\ Len(AllRows) = n /\ Broken(AllRows) = {}
                               /\ \A k \in 1 .. n : SameRow(AllRows[k], L[k - 1])
<1> DEFINE s == d[2][1]
           t == d[2][2]
<1>1. /\ ~dropped /\ s \in 0 .. n - 1 /\ t \in Nat /\ t >= n
      /\ DOMAIN stored = ((0 .. n - 1) \ {s}) \cup {t}
      /\ Holds(L, (0 .. n - 1) \ {s}) /\ stored[t] = StoredRow(L[s])
  BY DEF Moved
<1> HIDE DEF s, t
<1>2. Unparsed = {}
  <2>1. \A u \in DOMAIN stored : \E j \in 0 .. n - 1 : stored[u] = StoredRow(L[j])
    BY <1>1 DEF Holds
  <2> QED
    BY <2>1, ChainRow DEF Unparsed
<1>3. \A k \in 1 .. s : k - 1 \in (0 .. n - 1) \ {s} /\ stored[k - 1] = StoredRow(L[k - 1])
  BY <1>1 DEF Holds
<1>4. CASE s # n - 1
  <2>1. Severed(s, s + 1) /\ stored[s + 1].blob.sequence = s + 1
    BY <1>1, <1>2, <1>4, MissingSevers
  <2>2. Column(s + 1) = s + 1 /\ \A k \in 1 .. s : Column(k) = k - 1
    BY <2>1, FirstColumns DEF Severed, TableInv
  <2> QED
    BY <1>1, <1>2, <1>3, <1>4, <2>1, <2>2 DEF s, t
<1>5. CASE s = n - 1
  <2>1. /\ DOMAIN stored = (0 .. s - 1) \cup {t} /\ s \in Nat /\ s + 1 = n
        /\ t \in DOMAIN stored /\ t >= s /\ t # s /\ t \notin 0 .. s - 1
    BY <1>1, <1>5
  <2>2. /\ Column(s + 1) = t /\ \A k \in 1 .. s : Column(k) = k - 1
    BY <2>1, FirstColumns DEF TableInv
  <2>3. RowCount = n
    <3>1. IsFiniteSet(0 .. s - 1) /\ Cardinality(0 .. s - 1) = s
      BY <2>1, CountFromZero
    <3>2. Cardinality(DOMAIN stored) = s + 1
      BY <2>1, <3>1, FS_AddElement
    <3> QED
      BY <2>1, <3>2 DEF RowCount
  <2>4. Len(AllRows) = n
    BY <2>3, LengthRead DEF TableInv
  <2>5. ASSUME NEW k \in 1 .. n PROVE SameRow(AllRows[k], L[k - 1])
    <3>1. stored[Column(k)] = StoredRow(L[k - 1])
      <4>1. CASE k = s + 1
        <5>1. k - 1 = s
          BY <2>1, <4>1
        <5> QED
          BY <1>1, <2>2, <4>1, <5>1
      <4>2. CASE k # s + 1
        <5>1. k \in 1 .. s
          BY <2>1, <4>2
        <5> QED
          BY <1>3, <2>2, <5>1
      <4> QED
        BY <4>1, <4>2
    <3>2. SameRow(stored[Column(k)].blob, L[k - 1])
      BY <3>1, ChainRow
    <3> QED
      BY <2>3, <3>2, RowRead DEF TableInv
  <2>6. Broken(AllRows) = {}
    <3>1. ASSUME NEW i \in 1 .. n PROVE Linked(AllRows, i)
      <4>1. i # 1 => i - 1 \in 1 .. n /\ (i - 1) - 1 = i - 2
        OBVIOUS
      <4> QED
        BY <2>5, <4>1, ChainIsLinked
    <3> QED
      BY <2>4, <3>1 DEF Broken
  <2> QED
    BY <1>1, <1>2, <1>3, <1>5, <2>1, <2>2, <2>4, <2>5, <2>6 DEF s, t
<1> QED
  BY <1>4, <1>5

-----------------------------------------------------------------------------

\* What was read of a log that was hit, and not found wrong by itself.
ComparedInPlace(d) ==
    /\ d[1] \in {"unclaim"} \cup Unmirroring /\ AtRow(d)
    /\ BeginsLog(rows) /\ d[2] < Len(rows)
ComparedIntact(d) ==
    d[1] \in {"delete", "rewrite"} /\ LogIsIntact /\ BeginsLog(rows)
ComparedMoved(d) ==
    LET s == d[2][1]
    IN  /\ d[1] = "move" /\ Len(rows) = s + 1
        /\ \A k \in 1 .. s : k - 1 \in DOMAIN stored /\ SameRow(rows[k], stored[k - 1].blob)
Compared(d) == ComparedInPlace(d) \/ ComparedIntact(d) \/ ComparedMoved(d)

NamedInv ==
    /\ ForgeInv /\ CleanInv
    /\ \A d : damage = {d} => Hit(d)
    /\ \A d : seen # None /\ seen = {d} =>
        /\ pc = "attribute" => d[1] \in Unreadable /\ AtRow(d)
        /\ pc = "compare" => Compared(d)
        /\ pc = "done" /\ expected = None => Names(d)

\* A chain with rows is answered for at once only when it is broken.
LEMMA ReadAnswers ==
    ASSUME NEW head, ReadAll(head), Unparsed = {}, ~dropped,
           Len(AllRows) \in Nat, AllRows # <<>>
    PROVE  /\ rows' = AllRows /\ pc' # "attribute"
           /\ Broken(AllRows) # {} =>
                /\ pc' = "done"
                /\ report'.first_bad = AllRows[Least(Broken(AllRows))].sequence
                /\ report'.rows_checked = Least(Broken(AllRows)) - 1
                /\ (\E k \in 1 .. Len(AllRows) : AllRows[k].sequence # k - 1)
                        => report'.kind = "sequence_gap"
                /\ (\A k \in 1 .. Len(AllRows) : AllRows[k].sequence = k - 1)
                        => report'.kind = "broken_link"
           /\ Broken(AllRows) = {} /\ head = None => pc' = "compare"
<1>1. rows' = AllRows /\ CheckChain(AllRows, head)
  BY DEF ReadAll
<1> QED
  BY <1>1 DEF CheckChain, ChainIsInvalid, Answer

LEMMA SeveredAnswers ==
    ASSUME TableInv, NEW head, ReadAll(head), NEW i, NEW c, Severed(i, c)
    PROVE  /\ pc' = "done" /\ report'.rows_checked = i
           /\ report'.first_bad = stored[c].blob.sequence
           /\ stored[c].blob.sequence # i => report'.kind = "sequence_gap"
           /\ Numbered => report'.kind = "broken_link"
<1>1. /\ Unparsed = {} /\ ~dropped
      /\ Len(AllRows) \in Nat /\ AllRows # <<>> /\ i + 1 \in 1 .. Len(AllRows)
      /\ Broken(AllRows) # {} /\ Least(Broken(AllRows)) = i + 1
      /\ AllRows[i + 1].sequence = stored[c].blob.sequence
      /\ Numbered => \A k \in 1 .. Len(AllRows) : AllRows[k].sequence = k - 1
  BY ReadsSevered
<1>2. i \in Nat /\ (i + 1) - 1 = i
  BY DEF Severed
<1> QED
  BY <1>1, <1>2, ReadAnswers

LEMMA ReadAllNames ==
    ASSUME TableInv, NEW head, ReadAll(head), NEW d, Hit(d)
    PROVE  /\ pc' = "attribute" => d[1] \in Unreadable /\ AtRow(d)'
           /\ pc' = "compare" => Compared(d)'
           /\ pc' = "done" /\ head = None => Names(d)'
<1>0. UNCHANGED <<stored, dropped>> /\ RowCount' = RowCount
  BY DEF ReadAll, log, RowCount
<1>1. ASSUME NEW n \in Nat, NEW L, ChainOf(L, n), InPlace(L, n, d), d[1] \in Unreadable
      PROVE  pc' = "attribute" /\ AtRow(d)'
  <2>1. Unparsed # {} /\ ~dropped
    BY <1>1, ReadsUnreadable
  <2>2. AtRow(d)'
    BY <1>0, <1>1 DEF AtRow, InPlace, Holds
  <2> QED
    BY <2>1, <2>2 DEF ReadAll
<1>2. ASSUME NEW n \in Nat, NEW L, ChainOf(L, n), InPlace(L, n, d), d[1] \notin Unreadable
      PROVE  pc' # "attribute" /\ (pc' = "compare" => Compared(d)')
             /\ (head = None => pc' = "compare")
  <2>1. /\ Unparsed = {} /\ ~dropped /\ RowCount = n /\ d[2] \in 0 .. n - 1
        /\ Len(AllRows) = n /\ Broken(AllRows) = {} /\ BeginsLog(AllRows)
        /\ d[1] \in {"unclaim"} \cup Unmirroring
    BY <1>2, ReadsInPlace
  <2>2. AllRows # <<>>
    BY <2>1
  <2>3. rows' = AllRows /\ pc' # "attribute" /\ (head = None => pc' = "compare")
    BY <2>1, <2>2, ReadAnswers
  <2>4. BeginsLog(rows)'
    BY <1>0, <2>1, <2>3 DEF BeginsLog
  <2>5. AtRow(d)'
    BY <1>0, <1>2 DEF AtRow, InPlace, Holds
  <2> QED
    BY <2>1, <2>3, <2>4, <2>5 DEF Compared, ComparedInPlace
<1>3. ASSUME NEW n \in Nat, NEW L, ChainOf(L, n), Gap(L, n, d)
      PROVE  pc' = "done" /\ Names(d)'
  <2>1. Severed(d[2], d[2] + 1) /\ stored[d[2] + 1].blob.sequence = d[2] + 1
    BY <1>3, ReadsGap
  <2>2. d[2] \in Nat /\ d[1] = "delete"
    BY <1>3 DEF Gap
  <2>3. pc' = "done" /\ report'.kind = "sequence_gap" /\ report'.first_bad = d[2] + 1
    BY <2>1, <2>2, SeveredAnswers
  <2> QED
    BY <2>2, <2>3 DEF Names
<1>4. ASSUME NEW n \in Nat, NEW L, ChainOf(L, n), Moved(L, n, d)
      PROVE  /\ pc' # "attribute" /\ (pc' = "compare" => Compared(d)')
             /\ pc' = "done" /\ head = None => Names(d)'
  <2> DEFINE s == d[2][1]
  <2>1. /\ Unparsed = {} /\ ~dropped /\ s \in Nat
        /\ \A k \in 1 .. s : Column(k) = k - 1 /\ stored[k - 1] = StoredRow(L[k - 1])
        /\ s # n - 1 => Severed(s, s + 1) /\ stored[s + 1].blob.sequence = s + 1
        /\ s = n - 1 => /\ Len(AllRows) = n /\ Broken(AllRows) = {}
                        /\ \A k \in 1 .. n : SameRow(AllRows[k], L[k - 1])
    BY <1>4, ReadsMoved
  <2>2. d[1] = "move" /\ s \in 0 .. n - 1 /\ (0 .. n - 1) \ {s} \subseteq DOMAIN stored
    BY <1>4 DEF Moved
  <2> HIDE DEF s
  <2>3. CASE s # n - 1
    <3>1. /\ pc' = "done" /\ report'.kind = "sequence_gap" /\ report'.first_bad = s + 1
      BY <2>1, <2>3, SeveredAnswers
    <3> QED
      BY <2>2, <3>1 DEF Names, s
  <2>4. CASE s = n - 1
    <3>1. AllRows # <<>>
      BY <2>1, <2>4
    <3>2. rows' = AllRows /\ pc' # "attribute" /\ (head = None => pc' = "compare")
      BY <2>1, <2>4, <3>1, ReadAnswers
    <3>3. ASSUME NEW k \in 1 .. s
          PROVE  k - 1 \in DOMAIN stored' /\ SameRow(rows'[k], stored'[k - 1].blob)
      <4>1. k \in 1 .. n /\ k - 1 \in 0 .. n - 1 /\ k - 1 \in DOMAIN stored
        BY <2>1, <2>2, <2>4
      <4>2. SameRow(stored[k - 1].blob, L[k - 1]) /\ SameRow(AllRows[k], L[k - 1])
        BY <1>4, <2>1, <2>4, <4>1, ChainRow
      <4> QED
        BY <1>0, <3>2, <4>1, <4>2 DEF SameRow
    <3>4. Len(rows') = s + 1
      BY <2>1, <2>4, <3>2
    <3>5. Compared(d)'
      BY <2>2, <3>3, <3>4 DEF Compared, ComparedMoved, s
    <3> QED
      BY <3>2, <3>5
  <2> QED
    BY <2>3, <2>4
<1>5. ASSUME LogIsIntact, d[1] = "delete" \/ (d[1] = "rewrite" /\ DOMAIN stored # {})
      PROVE  /\ pc' # "attribute" /\ (pc' = "compare" => Compared(d)')
             /\ pc' = "done" /\ head = None => Names(d)'
  <2>1. /\ Unparsed = {} /\ ~dropped
        /\ Len(AllRows) = RowCount /\ RowCount \in Nat
        /\ BeginsLog(AllRows) /\ Broken(AllRows) = {}
    BY <1>5, IntactParses, IntactRead DEF TableInv, LogIsIntact
  <2>2. rows' = AllRows /\ CheckChain(AllRows, head)
    BY <2>1 DEF ReadAll
  <2>3. CASE AllRows = <<>>
    <3>1. pc' = "done" /\ report'.kind = "empty_chain"
      BY <2>2, <2>3 DEF CheckChain, Answer
    <3>2. RowCount = 0
      BY <2>1, <2>3
    <3>3. d[1] = "delete"
      BY <1>5, <3>2 DEF LogIsIntact
    <3> QED
      BY <3>1, <3>3 DEF Names
  <2>4. CASE AllRows # <<>>
    <3>1. pc' # "attribute" /\ (head = None => pc' = "compare")
      BY <2>1, <2>4, ReadAnswers
    <3>2. BeginsLog(rows)' /\ LogIsIntact'
      BY <1>0, <1>5, <2>1, <2>2 DEF BeginsLog, LogIsIntact
    <3> QED
      BY <1>5, <3>1, <3>2 DEF Compared, ComparedIntact
  <2> QED
    BY <2>3, <2>4
<1>6. ASSUME dropped, d[1] = "drop" PROVE pc' = "done" /\ Names(d)'
  <2>1. pc' = "done" /\ report'.kind = "chain_unreadable"
    BY <1>6 DEF ReadAll, Answer
  <2> QED
    BY <1>6, <2>1 DEF Names
<1>7. CASE AtRow(d)
  <2>1. PICK n \in Nat : \E L : ChainOf(L, n) /\ InPlace(L, n, d)
    BY <1>7 DEF AtRow
  <2>2. PICK L : ChainOf(L, n) /\ InPlace(L, n, d)
    BY <2>1
  <2>3. CASE d[1] \in Unreadable
    BY <1>1, <2>2, <2>3
  <2>4. CASE d[1] \notin Unreadable
    BY <1>2, <2>2, <2>4
  <2> QED
    BY <2>3, <2>4
<1>8. CASE \E n \in Nat : \E L : ChainOf(L, n) /\ Gap(L, n, d)
  BY <1>3, <1>8
<1>9. CASE \E n \in Nat : \E L : ChainOf(L, n) /\ Moved(L, n, d)
  BY <1>4, <1>9
<1>10. CASE LogIsIntact /\ d[1] = "delete"
  BY <1>5, <1>10
<1>11. CASE LogIsIntact /\ d[1] = "rewrite" /\ DOMAIN stored # {}
  BY <1>5, <1>11
<1>12. CASE dropped /\ d[1] = "drop"
  BY <1>6, <1>12
<1>13. CASE ForgedRow(d)
  <2>1. CASE d[1] = "forge number" /\ Severed(d[2], d[2]) /\ stored[d[2]].blob.sequence # d[2]
    <3>1. pc' = "done" /\ report'.kind = "sequence_gap" /\ report'.rows_checked = d[2]
      BY <2>1, SeveredAnswers
    <3> QED
      BY <2>1, <3>1 DEF Names
  <2>2. CASE d[1] = "forge link" /\ Severed(d[2], d[2]) /\ Numbered
    <3>1. stored[d[2]].blob.sequence = d[2]
      BY <2>2 DEF Severed, Numbered
    <3>2. pc' = "done" /\ report'.kind = "broken_link" /\ report'.first_bad = d[2]
      BY <2>2, <3>1, SeveredAnswers
    <3> QED
      BY <2>2, <3>2 DEF Names
  <2>3. CASE d[1] = "forge body" /\ Severed(d[2] + 1, d[2] + 1) /\ Numbered
    <3>1. stored[d[2] + 1].blob.sequence = d[2] + 1
      BY <2>3 DEF Severed, Numbered
    <3>2. pc' = "done" /\ report'.kind = "broken_link" /\ report'.first_bad = d[2] + 1
      BY <2>3, <3>1, SeveredAnswers
    <3> QED
      BY <2>3, <3>2 DEF Names
  <2> QED
    BY <1>13, <2>1, <2>2, <2>3 DEF ForgedRow
<1> QED
  BY <1>7, <1>8, <1>9, <1>10, <1>11, <1>12, <1>13, Zenon DEF Hit

LEMMA AttributeNames ==
    ASSUME TableInv, AttributeReadFailure, NEW d, AtRow(d), d[1] \in Unreadable
    PROVE  pc' = "done" /\ Names(d)'
<1>1a. PICK n \in Nat : \E L : ChainOf(L, n) /\ InPlace(L, n, d)
  BY DEF AtRow
<1>1. PICK L : ChainOf(L, n) /\ InPlace(L, n, d)
  BY <1>1a
<1>2. /\ Unparsed = {d[2]} /\ ~dropped
      /\ ~Parses(stored[d[2]].blob)
      /\ d[1] = "garble" => stored[d[2]].blob = Garbled
      /\ d[1] = "edit" => IsAuditRow(stored[d[2]].blob)
      /\ d[1] \in Misplacing => ~IsAuditRow(stored[d[2]].blob)
  BY <1>1, ReadsUnreadable
<1>3. Least(Unparsed) = d[2]
  <2>1. d[2] \in Nat
    BY <1>1 DEF InPlace
  <2> QED
    BY <1>2, <2>1, LeastIs
<1>4. /\ pc' = "done" /\ report'.kind = KindOfUnparsed(stored[d[2]].blob)
      /\ report'.first_bad = d[2]
  BY <1>2, <1>3 DEF AttributeReadFailure, Answer
<1>5. /\ d[1] = "garble" \/ d[1] \in Misplacing => report'.kind = "row_unreadable"
      /\ d[1] = "edit" => report'.kind = "row_tampered"
      /\ report'.kind \in {"row_tampered", "row_unreadable"}
  BY <1>2, <1>4 DEF KindOfUnparsed, IsAuditRow
<1>6. \/ d[1] = "garble" \/ d[1] = "edit" \/ d[1] = "renumber" \/ d[1] = "relink"
      \/ d[1] = "forge link" \/ d[1] = "forge number"
  BY DEF Unreadable
<1>7. CASE d[1] = "garble"
  BY <1>4, <1>5, <1>7 DEF Names
<1>8. CASE d[1] = "edit"
  BY <1>4, <1>5, <1>8 DEF Names
<1>9. CASE d[1] = "renumber" \/ d[1] = "relink"
  BY <1>4, <1>5, <1>9 DEF Names
<1>10. CASE d[1] = "forge link" \/ d[1] = "forge number"
  <2>1. d[1] \in Misplacing
    BY <1>10 DEF Misplacing
  <2> QED
    BY <1>4, <1>5, <1>10, <2>1 DEF Names
<1> QED
  BY <1>6, <1>7, <1>8, <1>9, <1>10

LEMMA ColumnIsNamed ==
    ASSUME TableInv, NEW d, NEW n \in Nat, NEW L, ChainOf(L, n), InPlace(L, n, d),
           d[1] \in Unmirroring, BeginsLog(rows), d[2] < Len(rows)
    PROVE  /\ Divergences(rows) # {}
           /\ Column(Least(Divergences(rows))) = d[2]
<1> DEFINE s == d[2]
<1>1. /\ s \in 0 .. n - 1 /\ DOMAIN stored = 0 .. n - 1
      /\ Holds(L, (0 .. n - 1) \ {s})
      /\ stored[s].blob = StoredRow(L[s]).blob
      /\ stored[s].prev_hash # L[s].prev_hash \/ stored[s].row_hash # Hash(L[s])
      /\ s < Len(rows)
  BY DEF InPlace, Left, Unreadable, Unmirroring
<1> HIDE DEF s
<1>2. RowCount = n /\ \A k \in 1 .. n : Column(k) = k - 1
  BY <1>1, DenseColumns DEF TableInv
<1>3. /\ Len(rows) \in Nat /\ Len(rows) <= n
      /\ \A k \in 1 .. Len(rows) : SameRow(rows[k], stored[k - 1].blob)
  BY <1>2 DEF BeginsLog
<1>4. \A t \in 0 .. n - 1 : SameRow(stored[t].blob, L[t])
  BY <1>1, ChainRow DEF Holds
<1>5. ASSUME NEW k \in 1 .. Len(rows)
      PROVE  SameRow(rows[k], L[k - 1]) /\ rows[k].sequence = k - 1 /\ Column(k) = k - 1
  <2>1. k - 1 \in 0 .. n - 1 /\ k \in 1 .. n
    BY <1>3
  <2> QED
    BY <1>2, <1>3, <1>4, <2>1 DEF SameRow, ChainOf
<1>6. s + 1 \in Divergences(rows)
  <2>1. s + 1 \in 1 .. Len(rows) /\ s + 1 <= RowCount /\ (s + 1) - 1 = s
    BY <1>1, <1>2, <1>3
  <2>2. rows[s + 1].prev_hash = L[s].prev_hash /\ Hash(rows[s + 1]) = Hash(L[s])
    BY <1>5, <2>1 DEF SameRow, Hash
  <2>3. Column(s + 1) = s
    BY <1>5, <2>1
  <2> QED
    BY <1>1, <2>1, <2>2, <2>3 DEF Divergences
<1>7. ASSUME NEW k \in Divergences(rows) PROVE s + 1 <= k
  <2> SUFFICES ASSUME k < s + 1 PROVE FALSE
    BY <1>1, <1>3 DEF Divergences
  <2>1. k \in 1 .. Len(rows) /\ k - 1 \in (0 .. n - 1) \ {s}
    BY <1>1, <1>3 DEF Divergences
  <2>2. stored[k - 1] = StoredRow(L[k - 1])
    BY <1>1, <2>1 DEF Holds
  <2>3. /\ Column(k) = rows[k].sequence
        /\ stored[Column(k)].prev_hash = rows[k].prev_hash
        /\ stored[Column(k)].row_hash = Hash(rows[k])
    BY <1>5, <2>1, <2>2 DEF StoredRow, SameRow, Hash
  <2> QED
    BY <2>3 DEF Divergences
<1>8. Least(Divergences(rows)) = s + 1
  <2>1. Divergences(rows) \in SUBSET Nat
    BY <1>3 DEF Divergences
  <2> QED
    BY <1>6, <1>7, <2>1, LeastIs
<1>9. s + 1 \in 1 .. n /\ (s + 1) - 1 = s
  BY <1>1
<1> QED
  BY <1>2, <1>6, <1>8, <1>9 DEF s

LEMMA UnclaimedAgrees ==
    ASSUME TableInv, NEW d, NEW n \in Nat, NEW L, ChainOf(L, n), InPlace(L, n, d),
           d[1] = "unclaim", BeginsLog(rows)
    PROVE  Divergences(rows) = {}
<1>1. /\ d[2] \in 0 .. n - 1 /\ DOMAIN stored = 0 .. n - 1
      /\ Holds(L, (0 .. n - 1) \ {d[2]})
      /\ stored[d[2]] = [StoredRow(L[d[2]]) EXCEPT !.blob.row_hash = Absent]
  BY DEF InPlace, Left, Unreadable, Unmirroring
<1>2. RowCount = n /\ \A k \in 1 .. n : Column(k) = k - 1
  BY <1>1, DenseColumns DEF TableInv
<1>3. ASSUME NEW t \in 0 .. n - 1
      PROVE  /\ stored[t].prev_hash = L[t].prev_hash /\ stored[t].row_hash = Hash(L[t])
             /\ SameRow(stored[t].blob, L[t])
  <2>1. CASE t = d[2]
    BY <1>1, <2>1 DEF StoredRow, SameRow
  <2>2. CASE t # d[2]
    <3>1. stored[t] = StoredRow(L[t])
      BY <1>1, <2>2 DEF Holds
    <3> QED
      BY <3>1 DEF StoredRow, SameRow
  <2> QED
    BY <2>1, <2>2
<1>4. /\ Len(rows) \in Nat /\ Len(rows) <= n
      /\ \A k \in 1 .. Len(rows) : SameRow(rows[k], stored[k - 1].blob)
  BY <1>2 DEF BeginsLog
<1>5. ASSUME NEW k \in 1 .. Len(rows)
      PROVE  /\ Column(k) = rows[k].sequence
             /\ stored[Column(k)].prev_hash = rows[k].prev_hash
             /\ stored[Column(k)].row_hash = Hash(rows[k])
  <2>1. k - 1 \in 0 .. n - 1 /\ k \in 1 .. n
    BY <1>4
  <2>2. SameRow(rows[k], L[k - 1]) /\ L[k - 1].sequence = k - 1
    BY <1>3, <1>4, <2>1 DEF SameRow, ChainOf
  <2> QED
    BY <1>2, <1>3, <2>1, <2>2 DEF SameRow, Hash
<1> QED
  BY <1>5 DEF Divergences

\* A row that moved is not in the column it is looked for in.
LEMMA MovedIsNamed ==
    ASSUME TableInv, NEW d, NEW n \in Nat, NEW L, ChainOf(L, n), Moved(L, n, d),
           ComparedMoved(d), GoodChain(rows), Len(rows) <= RowCount
    PROVE  /\ Divergences(rows) # {}
           /\ Column(Least(Divergences(rows))) \in {d[2][1] + 1, d[2][2]}
<1> DEFINE s == d[2][1]
<1>1. /\ s \in Nat /\ Column(s + 1) \in {s + 1, d[2][2]}
      /\ \A k \in 1 .. s : Column(k) = k - 1 /\ stored[k - 1] = StoredRow(L[k - 1])
  BY ReadsMoved
<1>2. /\ Len(rows) = s + 1
      /\ \A k \in 1 .. s : SameRow(rows[k], stored[k - 1].blob)
  BY DEF ComparedMoved
<1>3. s \in 0 .. n - 1 /\ d[2][2] \in Nat /\ d[2][2] >= n /\ RowCount \in Nat
  BY TableIsFinite DEF Moved, TableInv
<1> HIDE DEF s
<1>4. s + 1 \in Divergences(rows)
  <2>1. s + 1 \in 1 .. Len(rows) /\ (s + 1) - 1 = s /\ s + 1 <= RowCount
    BY <1>1, <1>2
  <2>2. rows[s + 1].sequence = s
    BY <2>1 DEF GoodChain, Linked
  <2>3. Column(s + 1) # s
    BY <1>1, <1>3
  <2> QED
    BY <2>1, <2>2, <2>3 DEF Divergences
<1>5. ASSUME NEW k \in 1 .. s PROVE k \notin Divergences(rows)
  <2>1. k \in 1 .. Len(rows) /\ k - 1 \in 0 .. n - 1
    BY <1>1, <1>2, <1>3
  <2>2. rows[k].sequence = k - 1
    BY <2>1 DEF GoodChain, Linked
  <2>3. SameRow(StoredRow(L[k - 1]).blob, L[k - 1]) /\ SameRow(rows[k], StoredRow(L[k - 1]).blob)
    BY <1>1, <1>2, <2>1, ChainRow
  <2>4. /\ stored[Column(k)].prev_hash = rows[k].prev_hash
        /\ stored[Column(k)].row_hash = Hash(rows[k])
    <3> DEFINE row == L[k - 1]
    <3>1. stored[Column(k)] = StoredRow(row)
      BY <1>1
    <3>2. SameRow(rows[k], row)
      BY <2>3 DEF SameRow
    <3> HIDE DEF row
    <3>3. stored[Column(k)].prev_hash = row.prev_hash /\ stored[Column(k)].row_hash = Hash(row)
      BY <3>1 DEF StoredRow
    <3> QED
      BY <3>2, <3>3 DEF SameRow, Hash
  <2> QED
    BY <1>1, <2>2, <2>4 DEF Divergences
<1>6. \A k \in Divergences(rows) : s + 1 <= k
  <2> SUFFICES ASSUME NEW k \in Divergences(rows), ~(s + 1 <= k) PROVE FALSE
    OBVIOUS
  <2>1. k \in 1 .. s
    BY <1>1, <1>2 DEF Divergences
  <2> QED
    BY <1>5, <2>1
<1>7. Least(Divergences(rows)) = s + 1
  <2>1. Divergences(rows) \in SUBSET Nat
    BY <1>1, <1>2 DEF Divergences
  <2> QED
    BY <1>4, <1>6, <2>1, LeastIs
<1> QED
  BY <1>1, <1>4, <1>7 DEF s

LEMMA CompareNames ==
    ASSUME TableInv, CompareColumns, NEW d, Hit(d), Compared(d),
           GoodChain(rows), Len(rows) <= RowCount
    PROVE  pc' = "done" /\ Names(d)'
<1>1. ~dropped
  BY DEF Hit, AtRow, InPlace, Gap, Moved, ForgedRow, Severed, LogIsIntact,
         Compared, ComparedInPlace, ComparedIntact, ComparedMoved
<1>2. /\ pc' = "done"
      /\ Divergences(rows) = {} => report'.kind = "none"
      /\ Divergences(rows) # {} =>
            report'.kind = "column_mismatch"
            /\ report'.first_bad = Column(Least(Divergences(rows)))
  BY <1>1 DEF CompareColumns, Answer
<1>3. CASE ComparedInPlace(d)
  <2>1a. PICK n \in Nat : \E L : ChainOf(L, n) /\ InPlace(L, n, d)
    BY <1>3 DEF ComparedInPlace, AtRow
  <2>1. PICK L : ChainOf(L, n) /\ InPlace(L, n, d)
    BY <2>1a
  <2>2. CASE d[1] \in Unmirroring
    <3>1. Divergences(rows) # {} /\ Column(Least(Divergences(rows))) = d[2]
      BY <1>3, <2>1, <2>2, ColumnIsNamed DEF ComparedInPlace
    <3> QED
      BY <1>2, <2>2, <3>1 DEF Names, Unmirroring
  <2>3. CASE d[1] = "unclaim"
    <3>1. Divergences(rows) = {}
      BY <1>3, <2>1, <2>3, UnclaimedAgrees DEF ComparedInPlace
    <3> QED
      BY <1>2, <2>3, <3>1 DEF Names
  <2> QED
    BY <1>3, <2>2, <2>3 DEF ComparedInPlace
<1>4. CASE ComparedIntact(d)
  <2>1. Divergences(rows) = {}
    BY <1>4, IntactComparison DEF ComparedIntact, TableInv
  <2> QED
    BY <1>2, <1>4, <2>1 DEF Names, ComparedIntact
<1>5. CASE ComparedMoved(d)
  <2>0. d[1] = "move"
    BY <1>5 DEF ComparedMoved
  <2>1a. PICK n \in Nat : \E L : ChainOf(L, n) /\ Moved(L, n, d)
    BY <2>0, Zenon DEF Hit, AtRow, InPlace, Left, Unreadable, Misplacing, Unmirroring, Gap, ForgedRow
  <2>1. PICK L : ChainOf(L, n) /\ Moved(L, n, d)
    BY <2>1a
  <2>2. /\ Divergences(rows) # {}
        /\ Column(Least(Divergences(rows))) \in {d[2][1] + 1, d[2][2]}
    BY <1>5, <2>1, MovedIsNamed
  <2> QED
    BY <1>2, <2>0, <2>2 DEF Names
<1> QED
  BY <1>3, <1>4, <1>5 DEF Compared

\* What is compared was read before, and the application may append since.
LEMMA AppendKeepsCompared ==
    ASSUME TableInv, NEW body \in Body, Append_(body), NEW d, Hit(d), Compared(d)
    PROVE  Compared(d)'
<1>1. UNCHANGED rows
  BY DEF Append_, verifier
<1>2. \A t \in DOMAIN stored : t \in DOMAIN stored' /\ stored'[t] = stored[t]
  BY DEF Append_
<1>3. CASE ComparedMoved(d)
  BY <1>1, <1>2, <1>3 DEF Compared, ComparedMoved, SameRow
<1>4. CASE ComparedIntact(d)
  <2>1. LogIsIntact'
    BY <1>4, AppendToIntact DEF ComparedIntact
  <2>2. BeginsLog(rows) => BeginsLog(rows)'
    BY <1>1, <1>4, StillBeginsLog DEF BeginsLog, ComparedIntact
  <2> QED
    BY <1>1, <1>4, <2>1, <2>2 DEF Compared, ComparedIntact
<1>5. CASE ComparedInPlace(d)
  <2>1a. PICK n \in Nat : \E L : ChainOf(L, n) /\ InPlace(L, n, d)
    BY <1>5 DEF ComparedInPlace, AtRow
  <2>1. PICK L : ChainOf(L, n) /\ InPlace(L, n, d)
    BY <2>1a
  <2>2. DOMAIN stored = 0 .. n - 1 /\ RowCount = n
    BY <2>1, DenseColumns DEF InPlace, TableInv
  <2>3. RowCount' = n + 1
    <3>1. PICK s : s \notin DOMAIN stored /\ DOMAIN stored' = DOMAIN stored \cup {s}
      BY DEF Append_
    <3>2. IsFiniteSet(DOMAIN stored) /\ Cardinality(DOMAIN stored) = n
      BY <2>2, TableIsFinite DEF RowCount, TableInv
    <3>3. Cardinality(DOMAIN stored \cup {s}) = n + 1
      BY <3>1, <3>2, FS_AddElement
    <3> QED
      BY <3>1, <3>3 DEF RowCount
  <2>4. /\ Len(rows) \in Nat /\ Len(rows) <= n
        /\ \A i \in 1 .. Len(rows) : SameRow(rows[i], stored[i - 1].blob)
    BY <1>5, <2>2 DEF ComparedInPlace, BeginsLog
  <2>5. \A i \in 1 .. Len(rows) : stored'[i - 1] = stored[i - 1]
    BY <1>2, <2>2, <2>4
  <2>6. BeginsLog(rows)'
    <3>1. rows' = rows /\ Len(rows) <= n + 1
      BY <1>1, <2>4
    <3>2. \A i \in 1 .. Len(rows) : SameRow(rows[i], stored'[i - 1].blob)
      BY <2>4, <2>5
    <3> QED
      BY <2>3, <2>4, <3>1, <3>2 DEF BeginsLog, SameRow
  <2>7. AtRow(d)'
    BY <2>1, AppendInPlace
  <2> QED
    BY <1>1, <1>5, <2>6, <2>7 DEF Compared, ComparedInPlace
<1> QED
  BY <1>3, <1>4, <1>5 DEF Compared

\* Only the table matters.
LEMMA SameTableSameHit ==
    ASSUME UNCHANGED <<stored, dropped>>, NEW d
    PROVE  Hit(d)' = Hit(d) /\ AtRow(d)' = AtRow(d)
<1>1. /\ RowCount' = RowCount /\ LogIsIntact' = LogIsIntact /\ Numbered' = Numbered
      /\ Unparsed' = Unparsed
  BY DEF RowCount, LogIsIntact, Numbered, Unparsed
<1>2. \A i, c : Severed(i, c)' = Severed(i, c)
  BY <1>1 DEF Severed, Follows
<1>3. AtRow(d)' = AtRow(d)
  BY DEF AtRow, InPlace, Holds
<1>4. ForgedRow(d)' = ForgedRow(d)
  BY <1>1, <1>2 DEF ForgedRow
<1> QED
  BY <1>1, <1>3, <1>4 DEF Hit, Gap, Moved, Holds

LEMMA StepNamed == NamedInv /\ [Next]_vars => NamedInv'
<1> SUFFICES ASSUME NamedInv, [Next]_vars PROVE NamedInv'
  OBVIOUS
<1>0. ForgeInv' /\ CleanInv' /\ TableInv /\ TableInv' /\ PinInv
  BY StepForge, StepClean DEF NamedInv, CleanInv
<1>1. ASSUME UNCHANGED <<stored, dropped, damage, seen, pc, expected, rows, report>>
      PROVE  NamedInv'
  <2>1. RowCount' = RowCount /\ LogIsIntact' = LogIsIntact
    BY <1>1 DEF RowCount, LogIsIntact
  <2>2. ASSUME NEW d PROVE Hit(d)' = Hit(d) /\ AtRow(d)' = AtRow(d)
    BY <1>1, <2>1, SameTableSameHit
  <2>3. ASSUME NEW d PROVE Compared(d)' = Compared(d) /\ Names(d)' = Names(d)
    BY <1>1, <2>1, <2>2
    DEF Compared, ComparedInPlace, ComparedIntact, ComparedMoved, Names, BeginsLog
  <2> QED
    BY <1>0, <1>1, <2>2, <2>3 DEF NamedInv
<1>2. ASSUME NEW body \in Body, Append_(body) PROVE NamedInv'
  <2>1. UNCHANGED <<damage, seen, pc, expected, rows, report>>
    BY <1>2 DEF Append_, verifier
  <2>2. \A d : damage' = {d} => Hit(d)'
    BY <1>0, <1>2, <2>1, AppendKeepsHit DEF NamedInv
  <2>3. ASSUME NEW d, seen # None, seen = {d}, pc = "compare" PROVE Compared(d)'
    <3>1. damage = {d}
      BY <1>0, <2>3 DEF TableInv
    <3> QED
      BY <1>0, <1>2, <2>3, <3>1, AppendKeepsCompared DEF NamedInv
  <2>4. \A d : Names(d)' = Names(d)
    BY <2>1 DEF Names
  <2>5. \A d : AtRow(d) => AtRow(d)'
    BY <1>0, <1>2, AppendInPlace DEF AtRow
  <2> QED
    BY <1>0, <2>1, <2>2, <2>3, <2>4, <2>5 DEF NamedInv
<1>3. CASE DamageTable
  <2>1. PICK statement, s : Damage(statement, s)
    BY <1>3 DEF DamageTable, DropTable, Garble, EditBlob, Edit, EditColumn, Delete, Move, Rewrite
  <2>2. /\ seen' = None \/ (pc \notin {"attribute", "compare"} /\ seen' = seen)
        /\ UNCHANGED <<pc, expected, rows, report>>
    BY <1>0, <2>1, DamageIsCounted
  <2>3. \A d : damage' = {d} => Hit(d)'
    BY <1>0, <1>3, DamageHits DEF NamedInv, CleanInv
  <2>4. \A d : Names(d)' = Names(d)
    BY <2>2 DEF Names
  <2> QED
    BY <1>0, <2>2, <2>3, <2>4 DEF NamedInv
<1>4. ASSUME UNCHANGED <<stored, dropped, damage>>,
             \A d : seen' # None /\ seen' = {d} =>
                /\ pc' = "attribute" => d[1] \in Unreadable /\ AtRow(d)'
                /\ pc' = "compare" => Compared(d)'
                /\ pc' = "done" /\ expected' = None => Names(d)'
      PROVE  NamedInv'
  <2>1. LogIsIntact' = LogIsIntact
    BY <1>4 DEF RowCount, LogIsIntact
  <2>2. ASSUME NEW d PROVE Hit(d)' = Hit(d)
    BY <1>4, <2>1, SameTableSameHit
  <2> QED
    BY <1>0, <1>4, <2>2 DEF NamedInv
<1>5. ASSUME NEW head \in {None, pin}, ReadAll(head) PROVE NamedInv'
  <2>1. UNCHANGED <<stored, dropped, damage>> /\ seen' = damage /\ expected' = head
    BY <1>5 DEF ReadAll, log
  <2>2. \A d : seen' = {d} => Hit(d)
    BY <2>1 DEF NamedInv
  <2> QED
    BY <1>0, <1>4, <1>5, <2>1, <2>2, ReadAllNames
<1>6. CASE AttributeReadFailure
  <2>1. UNCHANGED <<stored, dropped, damage, seen>> /\ pc = "attribute"
    BY <1>6 DEF AttributeReadFailure, log
  <2>2. ASSUME NEW d, seen # None, seen = {d} PROVE pc' = "done" /\ Names(d)'
    <3>1. AtRow(d) /\ d[1] \in Unreadable
      BY <1>0, <2>1, <2>2 DEF TableInv, NamedInv
    <3> QED
      BY <1>0, <1>6, <3>1, AttributeNames
  <2> QED
    BY <1>4, <2>1, <2>2
<1>7. CASE CompareColumns
  <2>1. UNCHANGED <<stored, dropped, damage, seen>> /\ pc = "compare"
    BY <1>7 DEF CompareColumns, log
  <2>2. ASSUME NEW d, seen # None, seen = {d} PROVE pc' = "done" /\ Names(d)'
    <3>1. damage = {d} /\ Hit(d) /\ Compared(d)
      BY <1>0, <2>1, <2>2 DEF TableInv, NamedInv
    <3>2. GoodChain(rows) /\ Len(rows) <= RowCount
      BY <1>0, <2>1, <2>2 DEF PinInv, NamedInv, ForgeInv
    <3> QED
      BY <1>0, <1>7, <3>1, <3>2, CompareNames
  <2> QED
    BY <1>4, <2>1, <2>2
<1>8. CASE Pin \/ UNCHANGED vars
  BY <1>1, <1>8 DEF Pin, vars, log, verifier
<1> QED
  BY <1>2, <1>3, <1>5, <1>6, <1>7, <1>8 DEF Next, Verify

LEMMA InitNamed == Init => NamedInv
<1> SUFFICES ASSUME Init PROVE NamedInv
  OBVIOUS
<1>1. damage = {} /\ seen = {} /\ pc = "idle"
  BY DEF Init
<1> QED
  BY <1>1, InitForge, InitClean DEF NamedInv

\* Whatever the application appends before, during and after it, one
\* damaging statement is named for what it did, at the row it hit; and the
\* two that leave the log linked, its end deleted and its hashes computed
\* again, are the ones that are not found without the pin.
THEOREM DamageIsNamedAlways == Spec => []DamageIsNamed
<1>1. NamedInv => DamageIsNamed
  <2> SUFFICES ASSUME NamedInv, pc = "done", expected = None,
                      seen # None, Cardinality(seen) = 1, NEW d \in seen
               PROVE  Names(d)
    BY DEF DamageIsNamed
  <2>1. IsFiniteSet(seen)
    <3>1. TypeOK /\ IsFiniteSet(damage)
      BY DEF NamedInv, CleanInv, TableInv
    <3> QED
      BY <3>1, FS_Subset DEF TypeOK
  <2>2. seen = {d}
    BY <2>1, FS_Singleton
  <2> QED
    BY <2>2 DEF NamedInv
<1> QED
  BY <1>1, InitNamed, StepNamed, PTL DEF Spec

=============================================================================
