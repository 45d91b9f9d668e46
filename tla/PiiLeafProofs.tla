---------------------------- MODULE PiiLeafProofs ----------------------------
(***************************************************************************)
(* What PiiLeaf promises, for every leaf and every list of detected spans. *)
(* Three invariants build on one another: types; what a resolve has done   *)
(* with the spans it has seen (Swept); how far the anonymizer has come     *)
(* (Rewritten).                                                            *)
(***************************************************************************)
EXTENDS PiiLeaf, FiniteSetTheorems, TLAPS

(* The length a rewrite adds to the text is a natural number. *)
LEMMA RewriteLenType ==
  ASSUME NEW h, operator \in Operators
  PROVE  RewriteLen(h) \in Nat
<1> DEFINE M == {c \in Chars : h.start <= c /\ c < h.end}
<1>1. IsFiniteSet(M)
  <2>1. IsFiniteSet(0..Length) BY FS_Interval, TextAssumption
  <2>2. M \subseteq 0..Length BY TextAssumption
  <2> QED BY <2>1, <2>2, FS_Subset
<1>2. Cardinality(M) \in Nat BY <1>1, FS_CardinalityType
<1>3. operator \in {"replace", "mask", "redact", "hash"} BY OperatorAssumption
<1>4. CASE operator = "mask" BY <1>2, <1>4 DEF RewriteLen
<1>5. CASE operator # "mask" BY <1>3, <1>5, OperatorAssumption DEF RewriteLen
<1> QED BY <1>4, <1>5

(* A span lies inside the text. *)
LEMMA HitFacts ==
  ASSUME TypeOK, NEW i \in DOMAIN hits
  PROVE  /\ hits[i] \in Hit
         /\ hits[i].start \in 0..Length /\ hits[i].end \in 0..Length
         /\ hits[i].start < hits[i].end
         /\ hits[i].score \in 0..MaxScore
<1>1. hits[i] \in Hit /\ hits[i].start < hits[i].end BY DEF TypeOK
<1>2. Boundaries \subseteq 0..Length BY TextAssumption DEF Boundaries
<1>3. hits[i].start \in Boundaries /\ hits[i].end \in Boundaries /\ hits[i].score \in 0..MaxScore
  BY <1>1 DEF Hit
<1> QED BY <1>1, <1>2, <1>3

(* Every step preserves the types, and no step but detection touches the   *)
(* spans.                                                                  *)
LEMMA TypeStep == TypeOK /\ [Next]_vars => TypeOK'
<1> SUFFICES ASSUME TypeOK, [Next]_vars PROVE TypeOK'
  OBVIOUS
<1> USE DEF TypeOK, Stages, Resolving
<1>1. CASE Recognize
  <2>1. PICK t \in RegexEntities, b \in Boundaries, e \in Boundaries, s \in Scores, supported \in BOOLEAN :
          LET h == [type |-> t, start |-> b, end |-> e, score |-> IF supported THEN Boosted(s) ELSE s]
          IN Surfaces(h) /\ hits' = Append(hits, h)
    BY <1>1 DEF Recognize
  <2> DEFINE h == [type |-> t, start |-> b, end |-> e, score |-> IF supported THEN Boosted(s) ELSE s]
  <2>2. s \in 1..MaxScore /\ Boosted(s) \in 0..MaxScore
    BY ScoreAssumption DEF Boosted, AtMost, AtLeast
  <2>3. h \in Hit BY <2>2 DEF Hit
  <2>4. h.start < h.end /\ h.score >= Floor BY <2>1 DEF Surfaces
  <2> HIDE DEF h
  <2>5. hits' = Append(hits, h) BY <2>1 DEF h
  <2>6. hits' \in Seq(Hit) /\ DOMAIN hits \subseteq DOMAIN hits' BY <2>3, <2>5
  <2>7. \A i \in DOMAIN hits' : hits'[i] = h \/ (i \in DOMAIN hits /\ hits'[i] = hits[i])
    BY <2>3, <2>5
  <2>8. UNCHANGED <<ner, operator, stage, resolveVars, textVars>> BY <1>1 DEF Recognize
  <2> QED BY <2>4, <2>6, <2>7, <2>8 DEF resolveVars, textVars
<1>2. CASE Infer
  <2>1. PICK t \in NerEntities, b \in Boundaries, e \in Boundaries, s \in Scores :
          /\ b < e /\ s >= NerThreshold
          /\ hits' = Append(hits, [type |-> t, start |-> b, end |-> e, score |-> s])
    BY <1>2 DEF Infer
  <2> DEFINE h == [type |-> t, start |-> b, end |-> e, score |-> s]
  <2>2. s \in 0..MaxScore BY ScoreAssumption
  <2>3. h \in Hit BY <2>2 DEF Hit
  <2>4. h.start < h.end /\ h.type \notin RegexEntities BY <2>1, EntityAssumption
  <2> HIDE DEF h
  <2>5. hits' = Append(hits, h) BY <2>1 DEF h
  <2>6. hits' \in Seq(Hit) /\ DOMAIN hits \subseteq DOMAIN hits' BY <2>3, <2>5
  <2>7. \A i \in DOMAIN hits' : hits'[i] = h \/ (i \in DOMAIN hits /\ hits'[i] = hits[i])
    BY <2>3, <2>5
  <2>8. UNCHANGED <<ner, operator, stage, resolveVars, textVars>> BY <1>2 DEF Infer
  <2> QED BY <2>4, <2>6, <2>7, <2>8 DEF resolveVars, textVars
<1>3. CASE Resolve
  <2>1. PICK i \in todo : Consider(i) /\ todo' = todo \ {i} BY <1>3 DEF Resolve
  <2>2. kept' \subseteq kept \cup {i} BY <2>1 DEF Consider
  <2> QED BY <1>3, <2>1, <2>2 DEF Resolve, textVars
<1>4. ASSUME Anonymize, UNCHANGED <<ner, operator, hits>>, regex' \in {regex, kept}
      PROVE  TypeOK'
  <2>1. CASE kept = {}
    BY <1>4, <2>1, TextAssumption DEF Anonymize, Untouched
  <2>2. CASE kept # {}
    BY <1>4, <2>2 DEF Anonymize, Walk, textVars
  <2> QED BY <2>1, <2>2
<1>5. CASE ScanDone
  BY <1>5 DEF ScanDone, Walk, textVars
<1>6. CASE RegexResolved
  <2>1. CASE ner
    BY <1>6, <2>1 DEF RegexResolved, Walk, textVars
  <2>2. CASE ~ner
    BY <1>6, <2>2, <1>4 DEF RegexResolved
  <2> QED BY <2>1, <2>2
<1>7. CASE InferDone
  BY <1>7 DEF InferDone, Walk, textVars
<1>8. CASE Merge
  BY <1>8 DEF Merge, Walk, textVars
<1>9. CASE Merged
  BY <1>9, <1>4 DEF Merged
<1>10. CASE FinalResolved
  BY <1>10 DEF FinalResolved, textVars
<1>11. CASE Rewrite
  <2>1. PICK i \in todo : /\ todo' = todo \ {i}
                          /\ IF Skipped(hits[i]) THEN UNCHANGED textVars ELSE RewriteSpan(hits[i])
    BY <1>11 DEF Rewrite
  <2>2. UNCHANGED <<ner, operator, hits, stage, kept, regex, given>> BY <1>11 DEF Rewrite
  <2>3. CASE UNCHANGED textVars BY <2>1, <2>2, <2>3 DEF textVars
  <2>4. CASE ~Skipped(hits[i]) /\ RewriteSpan(hits[i])
    <3> DEFINE h == hits[i]
    <3>1. h \in Hit /\ h.start \in 0..Length /\ h.end \in 0..Length /\ h.start \in Boundaries /\ h.end \in Boundaries
      BY HitFacts DEF Hit
    <3>2. h.start >= cursor /\ h.start - cursor \in Nat
      BY <2>4, <3>1 DEF Skipped
    <3>3. RewriteLen(h) \in Nat BY RewriteLenType
    <3>4. newLen' = newLen + (h.start - cursor) + RewriteLen(h) /\ newLen' \in Nat
      BY <2>4, <3>2, <3>3 DEF RewriteSpan
    <3>5. ops' \in Seq(Op)
      BY <2>4, <3>1, <3>2, <3>4 DEF RewriteSpan, Op
    <3>6. cursor..(h.start - 1) \subseteq 0..(Length - 1)
      BY <3>1, TextAssumption
    <3>7. copied' \subseteq 0..(Length - 1) /\ cursor' \in 0..Length
      BY <2>4, <3>1, <3>6 DEF RewriteSpan
    <3> QED BY <2>1, <2>2, <3>4, <3>5, <3>7
  <2> QED BY <2>1, <2>3, <2>4
<1>12. CASE Finish
  <2>1. newLen' \in Nat BY <1>12, TextAssumption DEF Finish
  <2> QED BY <1>12, <2>1, TextAssumption DEF Finish, resolveVars
<1>13. CASE UNCHANGED vars
  BY <1>13 DEF vars, resolveVars, textVars
<1> QED BY <1>1, <1>2, <1>3, <1>5, <1>6, <1>7, <1>8, <1>9, <1>10, <1>11, <1>12, <1>13
        DEF Next, Detect, Pipeline, Returned

(* Every variable keeps its type; no span is empty, outside the text or,   *)
(* from a pattern, below the floor (recognizers/mod.rs, analyzer.rs).      *)
THEOREM TypeCorrect == Spec => []TypeOK
<1>1. Init => TypeOK
  BY TextAssumption DEF Init, TypeOK, Stages, Resolving
<1> QED BY <1>1, TypeStep, PTL DEF Spec

-----------------------------------------------------------------------------
(* What a resolve has done so far. *)

Disjoint(S) == \A i, j \in S : i # j => ~Overlaps(hits[i], hits[j])

(* The survivors are disjoint and none begins behind a span to come; while *)
(* spans are still detected there are none.                                *)
Swept ==
  /\ Disjoint(kept)
  /\ stage \in Resolving => \A k \in kept, i \in todo : hits[k].start <= hits[i].start
  /\ stage \in {"scan", "infer"} => kept = {} /\ todo = {}

(* One round of the walk keeps the survivors disjoint: a candidate enters  *)
(* only when everything it overlaps has left.                              *)
LEMMA ConsiderKeepsApart ==
  ASSUME TypeOK, Disjoint(kept), NEW i \in todo, Consider(i), UNCHANGED hits
  PROVE  Disjoint(kept)'
<1> DEFINE rivals == {k \in kept : Overlaps(hits[k], hits[i])}
           evicted == {k \in rivals : CandidateWins(hits[k], hits[i])}
<1>1. kept' = (kept \ evicted) \cup {j \in {i} : rivals = evicted} BY DEF Consider
<1>2. \A k \in kept' : k \in kept \/ (k = i /\ rivals = evicted) BY <1>1
<1>3. rivals = evicted => \A k \in kept' : k # i => ~Overlaps(hits[k], hits[i]) BY <1>1
<1>4. \A k \in DOMAIN hits : Overlaps(hits[k], hits[i]) <=> Overlaps(hits[i], hits[k]) BY DEF Overlaps
<1>5. kept \subseteq DOMAIN hits BY DEF TypeOK
<1> QED BY <1>2, <1>3, <1>4, <1>5 DEF Disjoint, Overlaps

(* Every step preserves Swept. *)
LEMMA SweptStep == TypeOK /\ Swept /\ [Next]_vars => Swept'
<1> SUFFICES ASSUME TypeOK, Swept, [Next]_vars PROVE Swept'
  OBVIOUS
<1>1. CASE Detect
  BY <1>1 DEF Detect, Recognize, Infer, Swept, Disjoint, Resolving, resolveVars
<1>2. CASE Resolve
  <2>1. PICK i \in todo : IsNext(i) /\ Consider(i) /\ todo' = todo \ {i} BY <1>2 DEF Resolve
  <2>2. stage' = stage /\ stage \in Resolving /\ hits' = hits BY <1>2 DEF Resolve
  <2>3. Disjoint(kept)' BY <2>1, <2>2, ConsiderKeepsApart DEF Swept
  <2>4. kept' \subseteq kept \cup {i} BY <2>1 DEF Consider
  <2>5. \A j \in todo' : hits[i].start <= hits[j].start
    <3> TAKE j \in todo'
    <3>1. hits[i].start \in Nat /\ hits[j].start \in Nat BY <2>1, HitFacts, TextAssumption DEF TypeOK
    <3> QED BY <2>1, <3>1 DEF IsNext, Before
  <2>6. \A k \in kept', j \in todo' : hits'[k].start <= hits'[j].start
    BY <2>1, <2>2, <2>4, <2>5 DEF Swept
  <2> QED BY <2>2, <2>3, <2>6 DEF Swept, Resolving
<1>3. ASSUME NEW s, NEW S, Walk(s, S), s \in {"scan", "infer"} => S = {}, UNCHANGED hits PROVE Swept'
  BY <1>3 DEF Walk, Swept, Disjoint
<1>4. ASSUME Anonymize, UNCHANGED hits PROVE Swept'
  <2>1. CASE kept = {} BY <1>4, <2>1 DEF Anonymize, Untouched, Swept, Disjoint, Resolving
  <2>2. CASE kept # {} BY <1>4, <2>2, <1>3 DEF Anonymize
  <2> QED BY <2>1, <2>2
<1>5. CASE ScanDone BY <1>5, <1>3 DEF ScanDone
<1>6. CASE RegexResolved
  <2>1. CASE ner BY <1>6, <2>1, <1>3 DEF RegexResolved
  <2>2. CASE ~ner BY <1>6, <2>2, <1>4 DEF RegexResolved
  <2> QED BY <2>1, <2>2
<1>7. CASE InferDone BY <1>7, <1>3 DEF InferDone
<1>8. CASE Merge BY <1>8, <1>3 DEF Merge
<1>9. CASE Merged BY <1>9, <1>4 DEF Merged
<1>10. CASE FinalResolved BY <1>10 DEF FinalResolved, Swept, Disjoint, Resolving
<1>11. CASE Rewrite BY <1>11 DEF Rewrite, Swept, Disjoint, Resolving
<1>12. CASE Finish BY <1>12 DEF Finish, Swept, Disjoint, Resolving, resolveVars
<1>13. CASE UNCHANGED vars BY <1>13 DEF vars, resolveVars, Swept, Disjoint, Resolving
<1> QED BY <1>1, <1>2, <1>5, <1>6, <1>7, <1>8, <1>9, <1>10, <1>11, <1>12, <1>13
        DEF Next, Pipeline, Returned

(* Two survivors that overlap one candidate share its first byte, so they  *)
(* overlap one another.                                                    *)
LEMMA SweptApart == TypeOK /\ Swept => SurvivorsApart
<1> SUFFICES ASSUME TypeOK, Swept PROVE SurvivorsApart
  OBVIOUS
<1>1. ASSUME stage \in Resolving, NEW i \in todo, NEW k \in kept, NEW l \in kept,
             Overlaps(hits[k], hits[i]), Overlaps(hits[l], hits[i])
      PROVE  k = l
  <2>1. i \in DOMAIN hits /\ k \in DOMAIN hits /\ l \in DOMAIN hits BY DEF TypeOK
  <2>2. \A j \in {i, k, l} : hits[j].start \in Nat /\ hits[j].end \in Nat
    BY <2>1, HitFacts, TextAssumption
  <2>3. hits[k].start <= hits[i].start /\ hits[l].start <= hits[i].start BY <1>1 DEF Swept
  <2>4. Overlaps(hits[k], hits[l]) BY <1>1, <2>2, <2>3 DEF Overlaps
  <2> QED BY <2>4 DEF Swept, Disjoint
<1> QED BY <1>1 DEF SurvivorsApart, Swept, Disjoint

(* overlap::resolve keeps its survivors apart, and no candidate meets two  *)
(* of them (overlap.rs).                                                   *)
THEOREM SurvivorsStayApart == Spec => []SurvivorsApart
<1>1. Init => Swept
  BY DEF Init, Swept, Disjoint, Resolving
<1> QED BY <1>1, SweptStep, SweptApart, TypeCorrect, PTL DEF Spec

-----------------------------------------------------------------------------
(* How far the anonymizer has come. *)

Untold == cursor = 0 /\ copied = {} /\ newLen = 0 /\ ops = <<>>

Applied(i) == \E k \in DOMAIN ops : ops[k].start = hits[i].start /\ ops[k].end = hits[i].end

(* Where the gap before the k-th rewrite begins, in the old text and in    *)
(* the new.                                                                *)
From(k) == IF k = 1 THEN 0 ELSE ops[k - 1].end
Shift(k) == IF k = 1 THEN 0 ELSE ops[k - 1].newEnd
OpsTrackText == \A k \in 1..Len(ops) : ops[k].newStart - Shift(k) = ops[k].start - From(k)

(* The trail ends at the cursor, in the old text and in the new. *)
TrailEnd ==
  /\ ops = <<>> => cursor = 0 /\ newLen = 0
  /\ ops # <<>> => ops[Len(ops)].end = cursor /\ ops[Len(ops)].newEnd = newLen

(* The spans visited are applied and lie before the cursor, the others     *)
(* behind it; the bytes before the cursor are copied or covered.           *)
Progress ==
  /\ todo \subseteq given
  /\ \A i \in todo : cursor <= hits[i].start
  /\ \A i \in given \ todo : hits[i].end <= cursor /\ Applied(i)
  /\ copied = (0..(cursor - 1)) \ Covered(given \ todo)
  /\ Len(ops) + Cardinality(todo) = Cardinality(given)
  /\ TrailEnd

Rewritten ==
  /\ Disjoint(given)
  /\ OpsTrackText
  /\ stage \notin {"final", "rewrite", "done"} => given = {} /\ Untold
  /\ stage = "final" => given = kept \cup todo /\ Untold
  /\ stage = "rewrite" => Progress
  /\ stage = "done" => EverySpanApplied /\ NothingElseRewritten /\ OffsetsTrackText

(* Any set of spans is finite. *)
LEMMA FiniteSpans ==
  ASSUME TypeOK, NEW S, S \subseteq DOMAIN hits
  PROVE  IsFiniteSet(S)
<1>1. DOMAIN hits = 1..Len(hits) /\ Len(hits) \in Nat BY DEF TypeOK
<1>2. IsFiniteSet(DOMAIN hits) BY <1>1, FS_Interval
<1> QED BY <1>2, FS_Subset

(* Resolving what is disjoint already drops nothing. *)
LEMMA FinalStep ==
  ASSUME TypeOK, Rewritten, Resolve
  PROVE  Rewritten'
<1>1. PICK i \in todo : Consider(i) /\ todo' = todo \ {i} BY DEF Resolve
<1>2. UNCHANGED <<hits, stage, given, textVars>> /\ stage \in Resolving BY DEF Resolve
<1>3. stage = "final" => kept' \cup todo' = kept \cup todo
  <2> SUFFICES ASSUME stage = "final" PROVE kept' \cup todo' = kept \cup todo
    OBVIOUS
  <2> DEFINE rivals == {k \in kept : Overlaps(hits[k], hits[i])}
             evicted == {k \in rivals : CandidateWins(hits[k], hits[i])}
  <2>1. given = kept \cup todo /\ Disjoint(given) BY DEF Rewritten
  <2>2. rivals \subseteq {i} BY <2>1, <1>1 DEF Disjoint
  <2>3. evicted \subseteq rivals OBVIOUS
  <2>4. kept' = (kept \ evicted) \cup {j \in {i} : rivals = evicted} BY <1>1 DEF Consider
  <2>5. CASE rivals = {} BY <1>1, <2>4, <2>5
  <2>6. CASE rivals = {i} BY <1>1, <2>2, <2>3, <2>4, <2>6
  <2> QED BY <2>2, <2>5, <2>6
<1> QED BY <1>2, <1>3 DEF Rewritten, Resolving, Disjoint, OpsTrackText, From, Shift, Untold, textVars

(* One round of the rewrite: its span is never skipped. *)
LEMMA RewriteStep ==
  ASSUME TypeOK, Rewritten, Rewrite
  PROVE  Rewritten'
<1>1. PICK i \in todo : /\ IsNext(i) /\ todo' = todo \ {i}
                        /\ IF Skipped(hits[i]) THEN UNCHANGED textVars ELSE RewriteSpan(hits[i])
  BY DEF Rewrite
<1>2. UNCHANGED <<operator, hits, stage, kept, given>> /\ stage = "rewrite" BY DEF Rewrite
<1>3. Progress /\ Disjoint(given) /\ OpsTrackText BY <1>2 DEF Rewritten
<1> DEFINE h == hits[i]
           newStart == newLen + (h.start - cursor)
           op == [start |-> h.start, end |-> h.end, newStart |-> newStart, newEnd |-> newLen']
<1>4. i \in given /\ given \subseteq DOMAIN hits BY <1>1, <1>3 DEF Progress, TypeOK
<1>5. \A j \in given : /\ hits[j].start \in 0..Length /\ hits[j].end \in 0..Length
                       /\ hits[j].start < hits[j].end
                       /\ hits[j].start \in Boundaries /\ hits[j].end \in Boundaries
  BY <1>4, HitFacts DEF Hit
<1>6. cursor \in Nat /\ newLen \in Nat /\ ops \in Seq(Op) /\ cursor <= h.start
  BY <1>1, <1>3, TextAssumption DEF Progress, TypeOK
<1>7. ~Skipped(h)
  BY <1>4, <1>5, <1>6, TextAssumption DEF Skipped
<1>8. RewriteSpan(h) BY <1>1, <1>7
<1>9. /\ ops' = Append(ops, op) /\ cursor' = h.end
      /\ copied' = copied \cup cursor..(h.start - 1)
  BY <1>8 DEF RewriteSpan
<1>10. newLen' \in Nat /\ newStart \in Nat
  <2>1. RewriteLen(h) \in Nat BY RewriteLenType DEF TypeOK
  <2>2. newLen' = newStart + RewriteLen(h) BY <1>8 DEF RewriteSpan
  <2> QED BY <1>4, <1>5, <1>6, <2>1, <2>2
<1> HIDE DEF op, newStart
<1>11. /\ Len(ops') = Len(ops) + 1 /\ DOMAIN ops' = 1..Len(ops') /\ Len(ops) \in Nat
       /\ ops'[Len(ops')] = op /\ \A k \in 1..Len(ops) : ops'[k] = ops[k]
  BY <1>6, <1>9
<1>12. \A j \in todo' : h.end <= hits[j].start
  <2> TAKE j \in todo'
  <2>1. j \in given /\ j # i /\ j \in todo BY <1>1, <1>3 DEF Progress
  <2>2. h.start <= hits[j].start BY <1>1, <1>4, <1>5, <2>1 DEF IsNext, Before
  <2>3. ~Overlaps(h, hits[j]) BY <1>3, <1>4, <2>1 DEF Disjoint
  <2> QED BY <1>4, <1>5, <2>1, <2>2, <2>3 DEF Overlaps
<1>13. given' \ todo' = (given \ todo) \cup {i} BY <1>1, <1>2, <1>4
<1>14. \A j \in given' \ todo' : hits'[j].end <= cursor' /\ Applied(j)'
  <2>1. Applied(i)'
    BY <1>2, <1>11 DEF Applied, op
  <2>2. \A j \in given \ todo : hits[j].end <= h.end
    BY <1>3, <1>4, <1>5, <1>6 DEF Progress
  <2>3. \A j \in given \ todo : Applied(j)'
    BY <1>2, <1>3, <1>6, <1>11 DEF Progress, Applied
  <2> QED BY <1>2, <1>4, <1>5, <1>9, <1>13, <2>1, <2>2, <2>3
<1>15. copied' = (0..(cursor' - 1)) \ Covered(given \ todo)'
  <2>1. Covered(given \ todo)' = Covered(given \ todo) \cup h.start..(h.end - 1)
    BY <1>2, <1>13 DEF Covered
  <2>2. \A b \in Covered(given \ todo) : b < cursor
    BY <1>3, <1>5, <1>6 DEF Covered, Progress
  <2>3. copied = (0..(cursor - 1)) \ Covered(given \ todo) BY <1>3 DEF Progress
  <2> DEFINE C == Covered(given \ todo)
             b == h.start
             e == h.end
  <2>4. b \in Nat /\ e \in Nat /\ b < e /\ cursor <= b BY <1>4, <1>5, <1>6
  <2>5. copied' = copied \cup cursor..(b - 1) /\ cursor' = e BY <1>9
  <2>6. C' = C \cup b..(e - 1) BY <2>1
  <2> HIDE DEF C, b, e
  <2>7. \A x \in C : x < cursor BY <2>2 DEF C
  <2>8. copied = (0..(cursor - 1)) \ C BY <2>3 DEF C
  <2>9. ((0..(cursor - 1)) \ C) \cup cursor..(b - 1) = (0..(e - 1)) \ (C \cup b..(e - 1))
    BY <1>6, <2>4, <2>7
  <2> QED BY <2>5, <2>6, <2>8, <2>9 DEF C
<1>16. Len(ops') + Cardinality(todo') = Cardinality(given')
  <2>1. IsFiniteSet(todo) BY FiniteSpans DEF TypeOK
  <2>2. Cardinality(todo') = Cardinality(todo) - 1 /\ Cardinality(todo) \in Nat
    BY <1>1, <2>1, FS_RemoveElement, FS_CardinalityType
  <2> QED BY <1>2, <1>3, <1>11, <2>2 DEF Progress
<1>17. TrailEnd'
  BY <1>6, <1>9, <1>11 DEF TrailEnd, op
<1>18. OpsTrackText'
  <2> SUFFICES ASSUME NEW k \in 1..Len(ops')
               PROVE  ops'[k].newStart - Shift(k)' = ops'[k].start - From(k)'
    BY DEF OpsTrackText
  <2>1. CASE k <= Len(ops)
    <3>1. k \in 1..Len(ops) /\ (k # 1 => k - 1 \in 1..Len(ops)) BY <1>11, <2>1
    <3>2. Shift(k)' = Shift(k) /\ From(k)' = From(k) BY <1>11, <3>1 DEF Shift, From
    <3> QED BY <1>3, <1>11, <3>1, <3>2 DEF OpsTrackText
  <2>2. CASE k = Len(ops) + 1
    <3>1. ops'[k] = op BY <1>11, <2>2
    <3>2. Shift(k)' = newLen /\ From(k)' = cursor
      <4>1. CASE ops = <<>> BY <1>3, <1>6, <2>2, <4>1 DEF Progress, TrailEnd, Shift, From
      <4>2. CASE ops # <<>>
        <5>1. Len(ops) \in 1..Len(ops) /\ k # 1 /\ k - 1 = Len(ops) BY <1>6, <1>11, <2>2, <4>2
        <5> QED BY <1>3, <1>11, <4>2, <5>1 DEF Progress, TrailEnd, Shift, From
      <4> QED BY <4>1, <4>2
    <3> QED BY <1>4, <1>5, <1>6, <3>1, <3>2 DEF op, newStart
  <2> QED BY <1>11, <2>1, <2>2
<1>19. Progress'
  BY <1>1, <1>2, <1>3, <1>9, <1>12, <1>14, <1>15, <1>16, <1>17 DEF Progress
<1> QED BY <1>2, <1>3, <1>18, <1>19 DEF Rewritten, Disjoint

(* The end of the rewrite: with nothing left to visit, Progress says all.  *)
LEMMA FinishStep ==
  ASSUME TypeOK, Rewritten, Finish
  PROVE  Rewritten'
<1>1. UNCHANGED <<hits, given, ops>> /\ todo = {} /\ stage = "rewrite" /\ stage' = "done"
  BY DEF Finish, resolveVars
<1>2. Progress /\ OpsTrackText /\ Disjoint(given) BY <1>1 DEF Rewritten
<1>3. given \subseteq DOMAIN hits /\ cursor \in 0..Length /\ newLen \in Nat /\ ops \in Seq(Op) BY DEF TypeOK
<1>4. EverySpanApplied'
  <2>1. Cardinality(todo) = 0 BY <1>1, FS_EmptySet
  <2>2. Len(ops) = Cardinality(given) BY <1>2, <1>3, <2>1 DEF Progress
  <2> QED BY <1>1, <1>2, <2>2 DEF EverySpanApplied, Progress, Applied
<1>5. NothingElseRewritten'
  <2>1. copied' = copied \cup cursor..(Length - 1) BY DEF Finish
  <2>2. copied = (0..(cursor - 1)) \ Covered(given) BY <1>1, <1>2 DEF Progress
  <2>3. \A b \in Covered(given) : b < cursor
    <3>1. \A i \in given : /\ hits[i].end <= cursor /\ hits[i].end \in 0..Length
                           /\ hits[i].start \in 0..Length
      BY <1>1, <1>2, <1>3, HitFacts DEF Progress
    <3> QED BY <1>3, <3>1, TextAssumption DEF Covered
  <2>4. Covered(given)' = Covered(given) BY <1>1 DEF Covered
  <2>5. copied' = (0..(Length - 1)) \ Covered(given)
    BY <1>3, <2>1, <2>2, <2>3, TextAssumption
  <2> QED BY <1>1, <2>4, <2>5 DEF NothingElseRewritten
<1>6. OffsetsTrackText'
  <2>1. newLen' = newLen + (Length - cursor) BY DEF Finish
  <2>2. ASSUME Len(ops) > 0 PROVE newLen' - ops[Len(ops)].newEnd = Length - ops[Len(ops)].end
    BY <1>2, <1>3, <2>1, <2>2, TextAssumption DEF Progress, TrailEnd
  <2> QED BY <1>1, <1>2, <2>2 DEF OffsetsTrackText, OpsTrackText, Shift, From
<1> QED BY <1>1, <1>2, <1>4, <1>5, <1>6 DEF Rewritten, Disjoint, OpsTrackText, Shift, From

(* Every step preserves Rewritten. *)
LEMMA RewrittenStep == TypeOK /\ Swept /\ Rewritten /\ [Next]_vars => Rewritten'
<1> SUFFICES ASSUME TypeOK, Swept, Rewritten, [Next]_vars PROVE Rewritten'
  OBVIOUS
<1> USE DEF Untold
(* Steps before the anonymizer leave it nothing to remember. *)
<1>1. ASSUME stage \notin {"final", "rewrite", "done"}, stage' \notin {"final", "rewrite", "done"},
             UNCHANGED <<given, textVars>>
      PROVE  Rewritten'
  BY <1>1 DEF Rewritten, textVars, Disjoint, OpsTrackText, Shift, From
<1>2. ASSUME Anonymize, UNCHANGED hits, stage \notin {"final", "rewrite", "done"} PROVE Rewritten'
  <2>1. given = {} /\ ops = <<>> BY <1>2 DEF Rewritten
  <2>2. CASE kept = {}
    <3>1. /\ stage' = "done" /\ given' = {} /\ ops' = <<>> /\ copied' = 0..(Length - 1)
      BY <1>2, <2>1, <2>2 DEF Anonymize, Untouched
    <3>2. EverySpanApplied' BY <3>1, FS_EmptySet DEF EverySpanApplied
    <3>3. NothingElseRewritten' BY <3>1 DEF NothingElseRewritten, Covered
    <3>4. OpsTrackText' /\ OffsetsTrackText' BY <3>1 DEF OffsetsTrackText, OpsTrackText
    <3> QED BY <3>1, <3>2, <3>3, <3>4 DEF Rewritten, Disjoint
  <2>3. CASE kept # {}
    <3>1. stage' = "final" /\ todo' = kept /\ kept' = {} /\ given' = kept /\ UNCHANGED textVars
      BY <1>2, <2>3 DEF Anonymize, Walk
    <3> QED BY <1>2, <3>1 DEF Rewritten, Swept, Disjoint, textVars, OpsTrackText, Shift, From
  <2> QED BY <2>2, <2>3
<1>3. CASE Detect BY <1>3, <1>1 DEF Detect, Recognize, Infer, resolveVars
<1>4. CASE Resolve BY <1>4, FinalStep
<1>5. CASE ScanDone BY <1>5, <1>1 DEF ScanDone, Walk
<1>6. CASE RegexResolved
  <2>1. CASE ner BY <1>6, <2>1, <1>1 DEF RegexResolved, Walk
  <2>2. CASE ~ner BY <1>6, <2>2, <1>2 DEF RegexResolved
  <2> QED BY <2>1, <2>2
<1>7. CASE InferDone BY <1>7, <1>1 DEF InferDone, Walk
<1>8. CASE Merge BY <1>8, <1>1 DEF Merge, Walk
<1>9. CASE Merged BY <1>9, <1>2 DEF Merged
<1>10. CASE FinalResolved
  <2>1. /\ stage = "final" /\ todo = {} /\ stage' = "rewrite" /\ todo' = kept
        /\ UNCHANGED <<hits, given, textVars>>
    BY <1>10 DEF FinalResolved
  <2>2. given = kept /\ cursor = 0 /\ copied = {} /\ newLen = 0 /\ ops = <<>> BY <2>1 DEF Rewritten
  <2>3. \A i \in given : 0 <= hits[i].start BY HitFacts, TextAssumption DEF TypeOK
  <2>4. (0..(0 - 1)) \ Covered({}) = {} BY DEF Covered
  <2>5. IsFiniteSet(given) /\ Cardinality(given) \in Nat BY FiniteSpans, FS_CardinalityType DEF TypeOK
  <2>6. given \ given = {} OBVIOUS
  <2>7. Covered({})' = Covered({}) BY DEF Covered
  <2>8. Progress'
    BY <2>1, <2>2, <2>3, <2>4, <2>5, <2>6, <2>7 DEF Progress, TrailEnd, textVars
  <2> QED BY <2>1, <2>8 DEF Rewritten, Disjoint, textVars, OpsTrackText, Shift, From
<1>11. CASE Rewrite BY <1>11, RewriteStep
<1>12. CASE Finish BY <1>12, FinishStep
<1>13. CASE UNCHANGED vars
  <2>1. UNCHANGED <<hits, stage, todo, kept, given, cursor, copied, newLen, ops>>
    BY <1>13 DEF vars, resolveVars, textVars
  <2> QED BY <2>1 DEF Rewritten, Disjoint, OpsTrackText, Shift, From, Progress, TrailEnd, Applied, Covered,
                      EverySpanApplied, NothingElseRewritten, OffsetsTrackText
<1> QED BY <1>3, <1>4, <1>5, <1>6, <1>7, <1>8, <1>9, <1>10, <1>11, <1>12, <1>13
        DEF Next, Pipeline, Returned

(* Initially nothing is resolved and nothing rewritten. *)
LEMMA InitRewritten == Init => Swept /\ Rewritten
BY DEF Init, Swept, Rewritten, Disjoint, Resolving, OpsTrackText, Untold

(* What the invariant says of the finished leaf, and of every trail. *)
LEMMA RewrittenFacts == TypeOK /\ Rewritten => EverySpanApplied /\ NothingElseRewritten /\ OffsetsTrackText
BY DEF Rewritten, EverySpanApplied, NothingElseRewritten, OffsetsTrackText, OpsTrackText, Shift, From

(* The anonymizer applies every span it is handed, once: its second        *)
(* resolve drops none and its loop skips none (anonymizer.rs).             *)
THEOREM SpansAreApplied == Spec => []EverySpanApplied
BY InitRewritten, RewrittenStep, SweptStep, RewrittenFacts, TypeCorrect, PTL DEF Spec

(* Outside the spans it is handed the anonymizer keeps every byte, and     *)
(* inside none (anonymizer.rs).                                            *)
THEOREM RestIsKept == Spec => []NothingElseRewritten
BY InitRewritten, RewrittenStep, SweptStep, RewrittenFacts, TypeCorrect, PTL DEF Spec

(* The offsets of the audit trail are right in both texts (anonymizer.rs). *)
THEOREM OffsetsAreRight == Spec => []OffsetsTrackText
BY InitRewritten, RewrittenStep, SweptStep, RewrittenFacts, TypeCorrect, PTL DEF Spec
=============================================================================
