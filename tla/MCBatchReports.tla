---------------------------- MODULE MCBatchReports ----------------------------
(***************************************************************************)
(* Small tables for each check, every split of PermilleTotal among the     *)
(* arms, every shuffle of a block, and small arms and books.               *)
(***************************************************************************)
EXTENDS BatchReports, TLC

CONSTANTS c1, c2, k1, k2, o1, o2, attempt1, attempt2

UpTo(n, S) == UNION {[1 .. m -> S] : m \in 0 .. n}
Entries(list) == {list[i] : i \in DOMAIN list}

Tables(outbox, audit, cases, obligations) ==
    [kind |-> "tables",
     database |-> [outbox |-> outbox, audit |-> audit, cases |-> cases,
                   obligations |-> obligations]]

-----------------------------------------------------------------------------
\* Debits, with columns that may be empty or not what the envelope says, and
\* envelopes that are none.

OutboxRow(id, c, key, action_type, columns, envelope, status) ==
    [id |-> id, case_id |-> c, key |-> key, action_type |-> action_type,
     columns |-> columns, envelope |-> envelope, status |-> status]

Envelope(action, coords) == [action |-> action, coords |-> coords]

\* action_type, columns, envelope.
DebitForms ==
    {<<"schedule_debit", attempt1, Envelope("schedule_debit", attempt1)>>,
     <<"schedule_debit", attempt1, Envelope("schedule_debit", attempt2)>>,
     <<"schedule_debit", None, Envelope("schedule_debit", attempt1)>>,
     <<"schedule_debit", None, Envelope("send_email", None)>>,
     <<"send_email", None, Envelope("schedule_debit", attempt1)>>,
     <<"schedule_debit", attempt2, Malformed>>,
     <<"send_email", None, Malformed>>}

DebitTables ==
    {Tables({OutboxRow(i, IF i = 3 THEN c2 ELSE c1, rows[i][1], rows[i][2][1],
                       rows[i][2][2], rows[i][2][3], "pending") : i \in DOMAIN rows},
            {}, {}, {}) :
        rows \in UpTo(3, {k1, k2} \X DebitForms)}

\* Outbox and audit rows of two keys and two cases.
AuditRow(i, c, event, key) ==
    [sequence |-> i, case_id |-> c, event_type |-> event, key |-> key]

PairingTables ==
    {Tables({OutboxRow(i, o[i][1], o[i][2], "schedule_debit", i,
                       Envelope("schedule_debit", i), "pending") : i \in DOMAIN o},
            {AuditRow(i, a[i][1], "action", a[i][2]) : i \in DOMAIN a}, {}, {}) :
        o \in UpTo(2, {c1, c2} \X {k1, k2}),
        a \in UpTo(2, {c1, c2, None} \X {k1, k2, None})}

\* Two cases, with up to two rows each and a logged decision or none.
Row(id, c, status) ==
    OutboxRow(id, c, id, "send_email", None, Envelope("send_email", None), status)

OrphanTables ==
    {Tables({Row(<<c, i>>, c, rows[c][i]) : c \in {c1, c2}, i \in {1, 2}},
            {AuditRow(c, c, event[c], None) : c \in {c1, c2}},
            {[case_id |-> c, obligation_id |-> o1, state |-> state[c], amount |-> 1] :
                c \in {c1, c2}},
            {}) :
        state \in [{c1, c2} -> {"detected", "escalated", "stopped"}],
        rows \in [{c1, c2} -> [{1, 2} -> {"pending", "claimed", "done"}]],
        event \in [{c1, c2} -> {"arm_not_routed", "diagnosed"}]}

\* Two obligations and two cases on any of them.
RecoveryTables ==
    {Tables({}, {},
            {[case_id |-> c, obligation_id |-> on[c], state |-> state[c], amount |-> 2] :
                c \in {c1, c2}},
            {[obligation_id |-> o1, gross |-> gross, data |-> data],
             [obligation_id |-> o2, gross |-> 2, data |-> [paid |-> 0, credited |-> 1]]}) :
        on \in [{c1, c2} -> {o1, o2}],
        state \in [{c1, c2} -> {"recovered", "partially_recovered", "detected"}],
        gross \in {2, 4}, data \in [paid : 0 .. 3, credited : 0 .. 1] \cup {Malformed}}

MCDatabases == DebitTables \cup PairingTables \cup OrphanTables \cup RecoveryTables

-----------------------------------------------------------------------------
\* A total of ten, in every split with a headline comparison.

Weights(a0, a1, a2, a3, a4, a5) ==
    "A0" :> a0 @@ "A1" :> a1 @@ "A2" :> a2 @@ "A3" :> a3 @@ "A4" :> a4 @@ "A5" :> a5

\* Where the shares end that the arms have of n.
Cuts(n) == UNION {{<<a, b, c, d, e>> : d \in c .. n, e \in c .. n} :
                    <<a, b, c>> \in {t \in (0 .. n) \X (0 .. n) \X (0 .. n) :
                                        t[1] <= t[2] /\ t[2] <= t[3]}}
MCWeights ==
    {w \in {Weights(t[1], t[2] - t[1], t[3] - t[2], t[4] - t[3], t[5] - t[4], 10 - t[5]) :
                t \in {t \in Cuts(10) : t[4] <= t[5]}} :
        IsExperimentSpec([weights |-> w, control_arm |-> HeadlineControlArm,
                          treatment_arm |-> HeadlineTreatmentArm])}

MCAllWeights == {[kind |-> "weights", weights |-> w] : w \in MCWeights}

\* Blocks of five, and every way to draw them; the next block is drawn the
\* other way round.
BlockWeights == {w \in MCWeights : Gcd(w) = 2}
Streams == {s \in [1 .. 4 -> 0 .. 4] : \A i \in 1 .. 4 : s[i] <= i}

MCBlocks ==
    {[kind |-> "block", weights |-> w,
      streams |-> (0 :> s @@ 1 :> [i \in 1 .. 4 |-> s[5 - i] + i])] :
        w \in BlockWeights, s \in Streams}

\* Records of three arms, under weights that some of them were made under.
ThreeArms ==
    {[arm \in ExperimentArm |-> IF arm \in DOMAIN w THEN w[arm] ELSE 0] :
        w \in {("A0" :> 2 @@ "A1" :> 4 @@ "A4" :> 4), ("A0" :> 4 @@ "A1" :> 4 @@ "A4" :> 2)}}

Specs ==
    {[experiment_id |-> id, salt |-> salt, weights |-> w, draw |-> draw,
      streams |-> (0 :> [i \in 1 .. 4 |-> draw] @@ 1 :> [i \in 1 .. 4 |-> i])] :
        id \in {"exp_1", "exp_2"}, salt \in {"salt_1", "salt_2"}, w \in ThreeArms,
        draw \in 0 .. 9}

Record(arm, method, draw, rank) ==
    [experiment_id |-> "exp_1", salt |-> "salt_1", arm |-> arm, method |-> method,
     draw |-> draw, rank |-> rank]

DrawRecords ==
    {<<Record(arm, "hash_independent", draw, Missing)>> :
        arm \in {"A0", "A1", "A4"}, draw \in {0, 3, 7}}

\* The ranks of the first block, of the second, and one twice.
BlockRecords ==
    {[k \in 1 .. 5 |-> Record(arms[k], "permuted_block", Missing, ranks[k])] :
        arms \in [1 .. 5 -> {"A0", "A1", "A4"}],
        ranks \in {<<0, 1, 2, 3, 4>>, <<9, 5, 6, 8, 7>>, <<0, 1, 2, 2, 4>>}}

MCAssignments ==
    {[kind |-> "records", records |-> records, spec |-> spec] :
        records \in DrawRecords, spec \in Specs}
    \cup {[kind |-> "records", records |-> records, spec |-> spec] :
            records \in BlockRecords,
            spec \in {s \in Specs : s.experiment_id = "exp_1" /\ s.draw \in {0, 1, 7}}}

-----------------------------------------------------------------------------
\* Arms of up to four contacted cases.

Arm(arm, s, cases, contacts, opt_outs, violations, at_risk, gross, cost) ==
    [arm |-> arm, stratum |-> s, cases |-> cases, recovered |-> 0,
     at_risk |-> at_risk, gross |-> gross, cost |-> cost, contacts |-> contacts,
     opt_outs |-> opt_outs, policy_violations |-> violations]

Contacted(arm, violations) ==
    {o \in {Arm(arm, "s1", cases, contacts, opt_outs, v, 1, 0, 0) :
                cases \in 0 .. 4, contacts \in {0, 3, 5}, opt_outs \in 0 .. 4, v \in violations} :
        IsArmOutcome(o)}

MCArmPairs ==
    {[kind |-> "guardrail", treatment |-> t, control |-> c] :
        t \in Contacted("A4", {0, 1}), c \in Contacted("A1", {0})}

\* One stratum has any pair, the other a good one or one without control;
\* weights of both, of one, or of one more.
Outcomes(arm, s) ==
    {o \in {Arm(arm, s, 3, 0, 0, 0, at_risk, gross, cost) :
                at_risk \in {0, 3}, gross \in {0, 1, 3}, cost \in {0, 1}} :
        IsArmOutcome(o)}

FirstPairs ==
    [treatment : Outcomes("A4", "s1") \cup {NoArm},
     control : Outcomes("A1", "s1") \cup Outcomes("A4", "s1")
                \cup {Arm("A1", "s2", 3, 0, 0, 0, 3, 1, 0), NoArm}]
SecondPairs ==
    [treatment : {Arm("A4", "s2", 3, 0, 0, 0, 3, gross, 1) : gross \in {0, 2}},
     control : {Arm("A1", "s2", 3, 0, 0, 0, 3, 1, 0), NoArm}]

AtRisk ==
    [{"s1", "s2"} -> {0, 1, 2}] \cup [{"s1"} -> {2}] \cup [{"s1", "s2", "s3"} -> {1}]

MCStratumCalls ==
    {[kind |-> "strata", pairs |-> ("s1" :> first @@ "s2" :> second), at_risk |-> at_risk] :
        first \in FirstPairs, second \in SecondPairs, at_risk \in AtRisk}

-----------------------------------------------------------------------------
\* Up to two cases in the treatment arm and one in each control, beside one
\* out of scope; small and large amounts; resamples that repeat cases.

Outcome(arm) ==
    {[arm |-> arm, amount |-> amount, recovered |-> IF came THEN amount ELSE 0,
      simulated |-> simulated, contacts |-> 1] :
        amount \in {1, 3}, came \in BOOLEAN, simulated \in {TRUE}}
    \cup {[arm |-> arm, amount |-> amount, recovered |-> 0, simulated |-> FALSE,
           contacts |-> 0] : amount \in {1, 3}}

Lists(arm, n) == UpTo(n, Outcome(arm))

PickSets == {<<>>, <<1, 2>>, <<1, 1, 2>>, <<2, 2, 1, 2>>}
Places(outcomes, basis, arm) == DOMAIN OfArm(InScope(outcomes, basis), arm)

\* Each resample repeats the first place of an arm, or takes all as they are.
Pick(outcomes, basis, arm, which) ==
    [i \in Places(outcomes, basis, arm) |->
        IF which = 2 THEN i ELSE Min(Places(outcomes, basis, arm))]
Picks(outcomes, basis, list) ==
    [arm \in {"A0", "A1"} |->
        [k \in 1 .. Len(list) |->
            [treatment |-> Pick(outcomes, basis, "A4", list[k]),
             control |-> Pick(outcomes, basis, arm, 2)]]]

MCBooks ==
    {[kind |-> "book", outcomes |-> outcomes,
      picks |-> [basis \in Basis |-> Picks(outcomes, basis, list)]] :
        outcomes \in {t \o z \o b \o <<[arm |-> "A2", amount |-> 5, recovered |-> 0,
                                          simulated |-> FALSE, contacts |-> 0]>> :
                        t \in Lists("A4", 2), z \in Lists("A0", 1), b \in Lists("A1", 1)},
        list \in PickSets}

=============================================================================
