------------------------------ MODULE AuditVerify ------------------------------
(***************************************************************************)
(* The audit log as it is stored (reclaim/spine/audit_store.py) and the    *)
(* tool that answers whether it is damaged (reclaim/spine/verify.py).      *)
(*                                                                         *)
(* A stored row is found by its sequence column, and keeps the AuditRow in *)
(* a blob beside two columns that repeat the blob's hashes.  A hash is     *)
(* modelled by what it commits to -- a row's sequence, its contents and    *)
(* the hash of its predecessor -- so two hashes are equal exactly when the *)
(* histories behind them are.                                              *)
(*                                                                         *)
(* The verifier reads the table by up to two statements, and the           *)
(* application may append between them.  The table can also be damaged by  *)
(* statements that are not the application's: an UPDATE of one stored      *)
(* column of one row, which of the blob edits one field and may compute    *)
(* the blob's own claim again; a row deleted; the table dropped; and one   *)
(* that computes every hash again.  The head hash of a good report can be  *)
(* kept elsewhere, and handed to a later verification.                     *)
(***************************************************************************)
EXTENDS Naturals, Sequences, FiniteSets

CONSTANTS
    Body,       \* what an audit row says
    None,
    MaxRows,    \* columns are 0..MaxRows - 1
    MaxDamage   \* damaging statements

ASSUME BoundsAssumption == MaxRows \in Nat /\ MaxDamage \in Nat
ASSUME NoneAssumption == None \notin Nat /\ None # {}

VARIABLES
    stored,     \* the table: column -> [blob, prev_hash, row_hash]
    dropped,    \* the table is gone
    written,    \* every row the application appended
    damage,     \* the damaging statements so far, <<statement, where>>
    seen,       \* those before the last verification; None if one came during it
    pin,        \* a head hash kept out of band, or None
    pinned,     \* the rows of the report it was taken from
    pc,         \* the verifier: "idle", "attribute", "compare" or "done"
    expected,   \* the head hash it was called with, or None
    rows,       \* the rows its first statement read
    report      \* the ChainReport, None before there is one

log == <<stored, dropped, written>>
verifier == <<pc, expected, rows, report>>
vars == <<log, damage, seen, pin, pinned, verifier>>

-----------------------------------------------------------------------------
(***************************************************************************)
(* Audit rows.                                                             *)
(***************************************************************************)

Genesis == <<>>

\* A claim that a blob does not make, a tail that an empty table has not.
Absent == <<>>

\* prev_hash is inside the payload, which chains the rows; the faulty variant
\* leaves it out.
HashFaulty(row) == <<row.sequence, row.body>>
Hash(row) == <<row.sequence, row.prev_hash, row.body>>

\* A blob that is no AuditRow, with or without its claim: nothing in it can
\* be read.
Garbled == [sequence |-> None, prev_hash |-> None, body |-> None, row_hash |-> None]

Contents(blob) ==
    [sequence |-> blob.sequence, prev_hash |-> blob.prev_hash, body |-> blob.body]

\* The validators that do not concern the claim.
IsAuditRow(blob) ==
    /\ blob # Garbled
    /\ blob.sequence = 0 <=> blob.prev_hash = Genesis

\* A claim that is missing is derived.
ClaimAgrees(blob) == blob.row_hash \in {Absent, Hash(blob)}

Parses(blob) == IsAuditRow(blob) /\ ClaimAgrees(blob)

NextRow(tail, body) ==
    IF tail = Absent
    THEN [sequence |-> 0, prev_hash |-> Genesis, body |-> body]
    ELSE [sequence |-> tail.sequence + 1, prev_hash |-> Hash(tail), body |-> body]

StoredRow(row) ==
    [blob |-> [sequence |-> row.sequence, prev_hash |-> row.prev_hash,
               body |-> row.body, row_hash |-> Hash(row)],
     prev_hash |-> row.prev_hash, row_hash |-> Hash(row)]

-----------------------------------------------------------------------------
(***************************************************************************)
(* The application.                                                        *)
(***************************************************************************)

LastColumn == CHOOSE s \in DOMAIN stored : \A t \in DOMAIN stored : t <= s
TailBlob == IF stored = <<>> THEN Absent ELSE stored[LastColumn].blob

\* The row_hash column is unique.
IsFree(hash) == \A s \in DOMAIN stored : stored[s].row_hash # hash

\* The tail is parsed before it is linked to, and the column is unique.
Append_(body) ==
    LET row == NextRow(TailBlob, body)
    IN  /\ ~dropped
        /\ TailBlob # Absent => Parses(TailBlob)
        /\ row.sequence \notin DOMAIN stored
        /\ IsFree(Hash(row))
        /\ row.sequence < MaxRows
        /\ stored' = [s \in DOMAIN stored \cup {row.sequence} |->
                        IF s = row.sequence THEN StoredRow(row) ELSE stored[s]]
        /\ written' = written \cup {row}
        /\ UNCHANGED <<dropped, damage, seen, pin, pinned, verifier>>

-----------------------------------------------------------------------------
(***************************************************************************)
(* Damage to the table.                                                    *)
(***************************************************************************)

KnownHash == {Genesis} \cup {Hash(row) : row \in written}

Damage(statement, s) ==
    /\ ~dropped
    /\ <<statement, s>> \notin damage
    /\ Cardinality(damage) < MaxDamage
    /\ damage' = damage \cup {<<statement, s>>}
    /\ seen' = IF pc \in {"attribute", "compare"} THEN None ELSE seen
    /\ UNCHANGED <<written, pin, pinned, verifier>>

SetBlob(s, blob) ==
    /\ stored[s].blob # blob
    /\ stored' = [stored EXCEPT ![s].blob = blob]
    /\ dropped' = dropped

Garble(s) == Damage("garble", s) /\ SetBlob(s, Garbled)

\* An edited row with its own claim computed again.
Forged(blob) == [blob EXCEPT !.row_hash = Hash(blob)]

\* One UPDATE of the blob: a field is edited and the claim left as it was, or
\* computed again with it.
Edit(s, statement, forgery, blob) ==
    \/ Damage(statement, s) /\ SetBlob(s, blob)
    \/ Damage(forgery, s) /\ SetBlob(s, Forged(blob))

EditBlob(s) ==
    LET blob == stored[s].blob
    IN  /\ blob # Garbled
        /\ \/ \E body \in Body :
                Edit(s, "edit", "forge body", [blob EXCEPT !.body = body])
           \/ \E n \in 0 .. MaxRows - 1 :
                Edit(s, "renumber", "forge number", [blob EXCEPT !.sequence = n])
           \/ \E hash \in KnownHash :
                Edit(s, "relink", "forge link", [blob EXCEPT !.prev_hash = hash])
           \/ Damage("unclaim", s) /\ SetBlob(s, [blob EXCEPT !.row_hash = Absent])

EditColumn(s) ==
    \E hash \in KnownHash :
        /\ Damage("column", s)
        /\ \/ /\ stored[s].prev_hash # hash
              /\ stored' = [stored EXCEPT ![s].prev_hash = hash]
           \/ /\ IsFree(hash)
              /\ stored' = [stored EXCEPT ![s].row_hash = hash]
        /\ dropped' = dropped

Delete(s) ==
    /\ Damage("delete", s)
    /\ stored' = [t \in DOMAIN stored \ {s} |-> stored[t]]
    /\ dropped' = dropped

\* The sequence column of a row becomes a free one.
Move(s) ==
    \E t \in (0 .. MaxRows - 1) \ DOMAIN stored :
        /\ Damage("move", <<s, t>>)
        /\ stored' = [u \in (DOMAIN stored \ {s}) \cup {t} |->
                        IF u = t THEN stored[s] ELSE stored[u]]
        /\ dropped' = dropped

\* A row is changed, and every hash from it on is computed again.
Rewrite(s) ==
    \E body \in Body :
        LET Rewritten(t, link) ==
                [sequence |-> t, prev_hash |-> link,
                 body |-> IF t = s THEN body ELSE stored[t].blob.body]
            link[t \in DOMAIN stored] ==
                IF t = 0 THEN Genesis ELSE Hash(Rewritten(t - 1, link[t - 1]))
        IN  /\ damage = {}
            /\ Damage("rewrite", s)
            /\ stored' = [t \in DOMAIN stored |-> StoredRow(Rewritten(t, link[t]))]
            /\ dropped' = dropped

DropTable ==
    /\ Damage("drop", None)
    /\ stored' = <<>>
    /\ dropped' = TRUE

-----------------------------------------------------------------------------
(***************************************************************************)
(* verify_chain.                                                           *)
(***************************************************************************)

\* Row i has the next number and the hash of its predecessor.
Linked(chain, i) ==
    /\ chain[i].sequence = i - 1
    /\ chain[i].prev_hash = IF i = 1 THEN Genesis ELSE Hash(chain[i - 1])

Broken(chain) == {i \in 1 .. Len(chain) : ~Linked(chain, i)}

HeadHash(chain) == Hash(chain[Len(chain)])

-----------------------------------------------------------------------------
(***************************************************************************)
(* verify_database_chain.                                                  *)
(***************************************************************************)

\* The faulty variant has no kind of its own for an empty log.
ChainFailureKindFaulty ==
    {"none", "chain_unreadable", "row_unreadable", "row_tampered", "sequence_gap",
     "broken_link", "column_mismatch", "head_mismatch"}
ChainFailureKind ==
    {"none", "empty_chain", "chain_unreadable", "row_unreadable", "row_tampered",
     "sequence_gap", "broken_link", "column_mismatch", "head_mismatch"}

\* exit_code: what a script sees of a report.
ExitCode(kind) ==
    CASE kind = "none" -> 0
      [] kind = "empty_chain" -> 2
      [] OTHER -> 1

Least(S) == CHOOSE s \in S : \A t \in S : s <= t

\* The k-th row in the order of the sequence column.
Column(k) ==
    CHOOSE s \in DOMAIN stored : Cardinality({t \in DOMAIN stored : t <= s}) = k
RowCount == Cardinality(DOMAIN stored)
AllRows == [k \in 1 .. RowCount |-> Contents(stored[Column(k)].blob)]

Unparsed == {s \in DOMAIN stored : ~Parses(stored[s].blob)}

\* Every report ends the call.
Answer(kind, checked, bad, head) ==
    /\ pc' = "done"
    /\ report' = [kind |-> kind, rows_checked |-> checked, first_bad |-> bad,
                  head_hash |-> head]

ChainIsInvalid(chain) ==
    LET i == Least(Broken(chain))
    IN  Answer(IF \A k \in 1 .. Len(chain) : chain[k].sequence = k - 1
               THEN "broken_link" ELSE "sequence_gap",
               i - 1, chain[i].sequence, None)

\* verify_chain, and the head the caller pinned.
CheckChain(chain, head) ==
    IF chain = <<>> THEN Answer("empty_chain", 0, None, None)
    ELSE IF Broken(chain) # {} THEN ChainIsInvalid(chain)
    ELSE IF head \notin {None, HeadHash(chain)}
    THEN Answer("head_mismatch", Len(chain), chain[Len(chain)].sequence, None)
    ELSE pc' = "compare" /\ report' = None

\* read_all fails on the first row that does not parse, without naming it.
ReadAll(head) ==
    /\ pc \in {"idle", "done"}
    /\ expected' = head
    /\ seen' = damage
    /\ \/ /\ dropped
          /\ rows' = <<>>
          /\ Answer("chain_unreadable", 0, None, None)
       \/ /\ ~dropped /\ Unparsed # {}
          /\ rows' = <<>>
          /\ pc' = "attribute" /\ report' = None
       \/ /\ ~dropped /\ Unparsed = {}
          /\ rows' = AllRows
          /\ CheckChain(AllRows, head)
    /\ UNCHANGED <<log, damage, pin, pinned>>

\* A row that parses without its claim was edited; the faulty variant parses
\* it as it is.
KindOfUnparsedFaulty(blob) == IF Parses(blob) THEN "row_tampered" ELSE "row_unreadable"
KindOfUnparsed(blob) == IF IsAuditRow(blob) THEN "row_tampered" ELSE "row_unreadable"

\* _attribute_read_failure reads the table again.  A table that has gone in
\* between is answered for by the command line, not by the verifier.
AttributeReadFailure ==
    /\ pc = "attribute"
    /\ \/ /\ dropped
          /\ Answer("chain_unreadable", 0, None, None)
       \/ /\ ~dropped /\ Unparsed = {}
          /\ Answer("chain_unreadable", RowCount, None, None)
       \/ /\ ~dropped /\ Unparsed # {}
          /\ LET s == Least(Unparsed)
             IN  Answer(KindOfUnparsed(stored[s].blob),
                        Cardinality({t \in DOMAIN stored : t < s}), s, None)
    /\ UNCHANGED <<log, damage, seen, pin, pinned, expected, rows>>

\* The first column that disagrees with the row it mirrors, as far as both
\* go, or None.  One faulty variant compares the links only, one also takes
\* a row more than was read for a divergence.
DivergencesLinksOnly(chain) ==
    {k \in 1 .. Len(chain) :
        /\ k <= RowCount
        /\ \/ Column(k) # chain[k].sequence
           \/ stored[Column(k)].prev_hash # chain[k].prev_hash}
DivergencesStrict(chain) ==
    {k \in 1 .. RowCount :
        \/ k > Len(chain)
        \/ stored[Column(k)].row_hash # Hash(chain[k])}
Divergences(chain) ==
    {k \in 1 .. Len(chain) :
        /\ k <= RowCount
        /\ \/ Column(k) # chain[k].sequence
           \/ stored[Column(k)].prev_hash # chain[k].prev_hash
           \/ stored[Column(k)].row_hash # Hash(chain[k])}

CompareColumns ==
    /\ pc = "compare"
    /\ \/ /\ dropped
          /\ Answer("chain_unreadable", 0, None, None)
       \/ /\ ~dropped /\ Divergences(rows) # {}
          /\ Answer("column_mismatch", Len(rows), Column(Least(Divergences(rows))), None)
       \/ /\ ~dropped /\ Divergences(rows) = {}
          /\ Answer("none", Len(rows), None, HeadHash(rows))
    /\ UNCHANGED <<log, damage, seen, pin, pinned, expected, rows>>

\* The head of a report that verified is published.
Pin ==
    /\ pc = "done" /\ report.kind = "none"
    /\ pin' = report.head_hash
    /\ pinned' = rows
    /\ UNCHANGED <<log, damage, seen, verifier>>

-----------------------------------------------------------------------------

Init ==
    /\ stored = <<>> /\ dropped = FALSE /\ written = {}
    /\ damage = {} /\ seen = {}
    /\ pin = None /\ pinned = <<>>
    /\ pc = "idle" /\ expected = None /\ rows = <<>> /\ report = None

DamageTable ==
    \/ DropTable
    \/ \E s \in DOMAIN stored :
            Garble(s) \/ EditBlob(s) \/ EditColumn(s) \/ Delete(s) \/ Move(s) \/ Rewrite(s)

Verify ==
    \/ \E head \in {None, pin} : ReadAll(head)
    \/ AttributeReadFailure
    \/ CompareColumns

Next ==
    \/ \E body \in Body : Append_(body)
    \/ DamageTable
    \/ Verify
    \/ Pin

Spec == Init /\ [][Next]_vars

-----------------------------------------------------------------------------
(***************************************************************************)
(* Properties.                                                             *)
(***************************************************************************)

TypeOK ==
    /\ DOMAIN stored \subseteq 0 .. MaxRows - 1
    /\ dropped \in BOOLEAN /\ (seen = None \/ seen \subseteq damage)
    /\ Cardinality(damage) <= MaxDamage
    /\ pc \in {"idle", "attribute", "compare", "done"}
    /\ pc = "done" => report.kind \in ChainFailureKind

Verified == pc = "done" /\ ExitCode(report.kind) = 0

SameRow(r, q) == r.sequence = q.sequence /\ r.prev_hash = q.prev_hash /\ r.body = q.body

SameRows(r, q) == Len(r) = Len(q) /\ \A i \in 1 .. Len(r) : SameRow(r[i], q[i])

\* "Publishing this pins the whole log -- length included": a log verified
\* against a kept head is, row for row, the log the head was taken from,
\* whatever was done to the table since, hashes computed again included.
VerifiedAgainstPinIsPinned ==
    Verified /\ pin # None /\ expected = pin => SameRows(rows, pinned)

\* A log nobody touched is never reported as damaged, although the
\* application goes on appending while it is read -- except that a log that
\* has grown past the pin is taken for another log.
NoFalseAlarm ==
    seen = {} /\ pc = "done" =>
        \/ report.kind = "none"
        \/ report.kind = "empty_chain" /\ rows = <<>>
        \/ /\ report.kind = "head_mismatch" /\ expected # None
           /\ Len(rows) > Len(pinned)
           /\ SameRows(SubSeq(rows, 1, Len(pinned)), pinned)

\* Without a pin, and as long as nobody recomputes the mirrored hash columns,
\* every row of a log that verifies is one the application wrote: rows can be
\* missing from the end, but nothing in the log is changed, moved or made up,
\* not even when a blob was edited and its own claim computed again.
NothingIsForged ==
    /\ Verified /\ seen # None
    /\ \A d \in seen : d[1] # "rewrite"
    => \A i \in 1 .. Len(rows) : \E row \in written : SameRow(rows[i], row)

\* What a report says of a damaging statement: the kind, and the row.
\*   - A row is blamed itself where it does not parse, where its claim is left
\*     behind, where its link is forged, and where a column does not mirror it.
\*   - A forged body is found by the next row's link, or, of the last row, by
\*     the hash column.
\*   - Of a forged number the report gives the number, and the row by how many
\*     rows before it were good.
\*   - A row that left its column is missed at the next one -- one appended
\*     since, or even between the two reads, included -- and the last row, with
\*     nothing after it, is found where it went.
Names(d) ==
    LET Says(kind, s) == report.kind = kind /\ report.first_bad = s
        s == d[2]
    IN  CASE d[1] = "garble" -> Says("row_unreadable", s)
          [] d[1] = "edit" -> Says("row_tampered", s)
          [] d[1] \in {"renumber", "relink"} ->
                Says("row_tampered", s) \/ Says("row_unreadable", s)
          [] d[1] = "forge body" ->
                Says("broken_link", s + 1) \/ Says("column_mismatch", s)
          [] d[1] = "forge link" ->
                Says("broken_link", s) \/ Says("row_unreadable", s)
          [] d[1] = "forge number" ->
                \/ report.kind = "sequence_gap" /\ report.rows_checked = s
                \/ Says("row_unreadable", s)
          [] d[1] = "column" -> Says("column_mismatch", s)
          [] d[1] = "move" ->
                \/ Says("sequence_gap", s[1] + 1)
                \/ Says("column_mismatch", s[1] + 1)
                \/ Says("column_mismatch", s[2])
          [] d[1] = "delete" ->
                Says("sequence_gap", s + 1) \/ report.kind \in {"none", "empty_chain"}
          [] d[1] = "drop" -> report.kind = "chain_unreadable"
          [] d[1] \in {"unclaim", "rewrite"} -> report.kind = "none"

\* One damaging statement is named for what it did, at the row it hit,
\* whatever is appended meanwhile -- except for those that leave rows that
\* agree with each other and with their columns: the last row deleted, a
\* claim taken out, all hashes computed again.  They are not found without
\* the pin.
DamageIsNamed ==
    /\ pc = "done" /\ expected = None
    /\ seen # None /\ Cardinality(seen) = 1
    => \A d \in seen : Names(d)

=============================================================================
