------------------------------- MODULE PiiLeaf -------------------------------
(***************************************************************************)
(* What happens to one string leaf between the recognizers and the         *)
(* rewritten text (crates/pii): the context boost and the score floor,     *)
(* overlap resolution, the merge with the NER spans, and the forward       *)
(* rewrite of the anonymizer.                                              *)
(*                                                                         *)
(* The text is its length and its character boundaries.  What a pattern or *)
(* the model finds in it is data, so any hits may come; from there on the  *)
(* code is sequential, one step per iteration of a loop.  A list of spans  *)
(* is a set of indices into hits.  Every loop walks its list in the order  *)
(* of overlap::resolve's stable sort, which Before restates; where two     *)
(* spans tie, the lower index comes first in every list the code builds.   *)
(***************************************************************************)
EXTENDS Integers, Sequences, FiniteSets

CONSTANTS Length,        \* bytes of the leaf
          Chars,         \* the offsets at which its characters begin
          RegexEntities, \* entity types of the patterns
          NerEntities,   \* those of the model
          Scores,        \* levels a pattern or the model can give
          MaxScore, Floor, Boost, NerThreshold,
          Placeholder,   \* bytes of a <TYPE> placeholder
          Digest,        \* bytes of a hash
          Operators,     \* the operators to choose from
          MaxHits        \* bound: spans found in one leaf

ASSUME TextAssumption == Length \in Nat /\ Chars \subseteq 0..Length
ASSUME ScoreAssumption == /\ Scores \subseteq 1..MaxScore
                          /\ MaxScore \in Nat /\ Boost \in Nat
                          /\ Floor \in 0..MaxScore /\ NerThreshold \in Nat
ASSUME EntityAssumption == RegexEntities \cap NerEntities = {}
ASSUME OperatorAssumption == /\ Placeholder \in Nat /\ Digest \in Nat
                             /\ Operators \subseteq {"replace", "mask", "redact", "hash"}
ASSUME BoundAssumption == MaxHits \in Nat

Boundaries == Chars \cup {Length}
Hit == [type : RegexEntities \cup NerEntities, start : Boundaries, end : Boundaries, score : 0..MaxScore]

VARIABLES
  ner,      \* whether an engine is attached
  operator, \* the configured one
  hits,     \* everything detected, in registration order, the model's last
  stage,
  todo,     \* the spans the current loop has yet to visit
  kept,     \* survivors of the current resolve
  regex,    \* LeafSlot.regex
  given,    \* what anonymize was handed
  cursor,   \* first byte not copied or rewritten yet
  copied,   \* bytes of the leaf appended to the new text as they were
  newLen,   \* length of the new text
  ops       \* the audit trail

resolveVars == <<todo, kept, regex, given>>
textVars == <<cursor, copied, newLen, ops>>
vars == <<ner, operator, hits, stage, resolveVars, textVars>>

Resolving == {"regex", "windows", "merge", "final"}

Init ==
  /\ ner \in BOOLEAN /\ operator \in Operators
  /\ hits = <<>> /\ stage = "scan"
  /\ todo = {} /\ kept = {} /\ regex = {} /\ given = {}
  /\ cursor = 0 /\ copied = {} /\ newLen = 0 /\ ops = <<>>

-----------------------------------------------------------------------------
(* Detection. *)

AtMost(a, b) == IF a < b THEN a ELSE b
AtLeast(a, b) == IF a > b THEN a ELSE b

Boosted(s) == IF s = MaxScore THEN s ELSE AtMost(AtLeast(s + Boost, Floor), MaxScore)

(* build_result and the floor of analyze_with_context: what a recognizer   *)
(* may surface.                                                            *)
Surfaces(h) == h.start < h.end /\ h.score >= Floor

(* A pattern matches and its match is not invalid, with or without a       *)
(* keyword near it or on the leaf's key path.                              *)
Recognize ==
  /\ stage = "scan" /\ Len(hits) < MaxHits
  /\ \E t \in RegexEntities, b, e \in Boundaries, s \in Scores, supported \in BOOLEAN :
       LET h == [type |-> t, start |-> b, end |-> e, score |-> IF supported THEN Boosted(s) ELSE s]
       IN Surfaces(h) /\ hits' = Append(hits, h)
  /\ UNCHANGED <<ner, operator, stage, resolveVars, textVars>>

(* The model's spans: not empty, of an allowed entity, at the threshold. *)
Infer ==
  /\ stage = "infer" /\ Len(hits) < MaxHits
  /\ \E t \in NerEntities, b, e \in Boundaries, s \in Scores :
       /\ b < e /\ s >= NerThreshold
       /\ hits' = Append(hits, [type |-> t, start |-> b, end |-> e, score |-> s])
  /\ UNCHANGED <<ner, operator, stage, resolveVars, textVars>>

-----------------------------------------------------------------------------
(* Overlap resolution. *)

(* Mutant: the score is compared first. *)
BeforeByScore(i, j) ==
  \/ hits[i].score > hits[j].score
  \/ hits[i].score = hits[j].score /\ hits[i].start < hits[j].start
  \/ hits[i].start = hits[j].start /\ hits[i].score = hits[j].score /\ i < j
(* The stable sort by (start, -score). *)
Before(i, j) ==
  \/ hits[i].start < hits[j].start
  \/ hits[i].start = hits[j].start /\ hits[i].score > hits[j].score
  \/ hits[i].start = hits[j].start /\ hits[i].score = hits[j].score /\ i < j
IsNext(i) == i \in todo /\ \A j \in todo \ {i} : Before(i, j)

(* Mutant: spans that only share their first byte are missed. *)
OverlapsInside(a, b) == a.start < b.start /\ b.start < a.end
Overlaps(a, b) == a.start < b.end /\ b.start < a.end

Contains(a, b) == a.type = b.type /\ a.start <= b.start /\ a.end >= b.end
Width(a) == a.end - a.start

(* dominate: the candidate wins.  In every other case the existing span    *)
(* does, also when the two are equal.                                      *)
CandidateWins(existing, candidate) ==
  /\ ~Contains(existing, candidate)
  /\ \/ Contains(candidate, existing)
     \/ candidate.score > existing.score
     \/ candidate.score = existing.score /\ Width(candidate) > Width(existing)

(* One round of the walk: evict the survivors the candidate beats, keep it *)
(* unless one of the others beats it.                                      *)
Consider(i) ==
  LET rivals == {k \in kept : Overlaps(hits[k], hits[i])}
      evicted == {k \in rivals : CandidateWins(hits[k], hits[i])}
  IN kept' = (kept \ evicted) \cup {j \in {i} : rivals = evicted}

Resolve ==
  /\ stage \in Resolving
  /\ \E i \in todo : IsNext(i) /\ Consider(i) /\ todo' = todo \ {i}
  /\ UNCHANGED <<ner, operator, hits, stage, regex, given, textVars>>

Walk(s, S) == stage' = s /\ todo' = S /\ kept' = {}

(* Nothing is left to rewrite: the leaf stays as it is. *)
Untouched ==
  /\ stage' = "done" /\ copied' = 0..(Length - 1) /\ newLen' = Length /\ cursor' = Length
  /\ UNCHANGED <<todo, kept, given, ops>>

Anonymize ==
  IF kept = {} THEN Untouched
  ELSE Walk("final", kept) /\ given' = kept /\ UNCHANGED textVars

ScanDone ==
  /\ stage = "scan"
  /\ Walk("regex", DOMAIN hits)
  /\ UNCHANGED <<ner, operator, hits, regex, given, textVars>>

RegexResolved ==
  /\ stage = "regex" /\ todo = {}
  /\ regex' = kept
  /\ IF ner THEN Walk("infer", {}) /\ UNCHANGED <<given, textVars>>
     ELSE Anonymize
  /\ UNCHANGED <<ner, operator, hits>>

(* The engine resolves what its overlapping windows found twice. *)
InferDone ==
  /\ stage = "infer"
  /\ Walk("windows", {i \in DOMAIN hits : hits[i].type \in NerEntities})
  /\ UNCHANGED <<ner, operator, hits, regex, given, textVars>>

(* merge_spans: what is below the floor goes, the rest is appended. *)
Merge ==
  /\ stage = "windows" /\ todo = {}
  /\ Walk("merge", regex \cup {i \in kept : hits[i].score >= Floor})
  /\ UNCHANGED <<ner, operator, hits, regex, given, textVars>>

Merged ==
  /\ stage = "merge" /\ todo = {}
  /\ Anonymize
  /\ UNCHANGED <<ner, operator, hits, regex>>

-----------------------------------------------------------------------------
(* The forward rewrite. *)

FinalResolved ==
  /\ stage = "final" /\ todo = {}
  /\ stage' = "rewrite" /\ todo' = kept
  /\ UNCHANGED <<ner, operator, hits, kept, regex, given, textVars>>

(* Bytes the operator writes: a placeholder, a digest, nothing, or one     *)
(* mask byte per character.                                                *)
RewriteLen(h) ==
  CASE operator = "replace" -> Placeholder
    [] operator = "hash"    -> Digest
    [] operator = "redact"  -> 0
    [] operator = "mask"    -> Cardinality({c \in Chars : h.start <= c /\ c < h.end})

Skipped(h) ==
  \/ h.start < cursor \/ h.end < h.start \/ h.end > Length
  \/ h.start \notin Boundaries \/ h.end \notin Boundaries

(* Mutant: the gap is not counted in the new offsets. *)
RewriteSpanWithoutGap(h) ==
  /\ newLen' = newLen + (h.start - cursor) + RewriteLen(h)
  /\ ops' = Append(ops, [start |-> h.start, end |-> h.end, newStart |-> newLen, newEnd |-> newLen'])
  /\ copied' = copied \cup cursor..(h.start - 1)
  /\ cursor' = h.end
RewriteSpan(h) ==
  LET newStart == newLen + (h.start - cursor) IN
  /\ newLen' = newStart + RewriteLen(h)
  /\ ops' = Append(ops, [start |-> h.start, end |-> h.end, newStart |-> newStart, newEnd |-> newLen'])
  /\ copied' = copied \cup cursor..(h.start - 1)
  /\ cursor' = h.end

Rewrite ==
  /\ stage = "rewrite"
  /\ \E i \in todo :
       /\ IsNext(i) /\ todo' = todo \ {i}
       /\ IF Skipped(hits[i]) THEN UNCHANGED textVars ELSE RewriteSpan(hits[i])
  /\ UNCHANGED <<ner, operator, hits, stage, kept, regex, given>>

Finish ==
  /\ stage = "rewrite" /\ todo = {}
  /\ stage' = "done"
  /\ copied' = copied \cup cursor..(Length - 1)
  /\ newLen' = newLen + (Length - cursor)
  /\ cursor' = Length
  /\ UNCHANGED <<ner, operator, hits, resolveVars, ops>>

Returned == stage = "done" /\ UNCHANGED vars

Detect == Recognize \/ Infer
Pipeline == ScanDone \/ RegexResolved \/ InferDone \/ Merge \/ Merged \/ FinalResolved
Next == Detect \/ Resolve \/ Pipeline \/ Rewrite \/ Finish \/ Returned

Spec == Init /\ [][Next]_vars

-----------------------------------------------------------------------------
(* Properties. *)

Stages == Resolving \cup {"scan", "infer", "rewrite", "done"}
Op == [start : Boundaries, end : Boundaries, newStart : Nat, newEnd : Nat]

(* Every variable has its type; in particular, no span is empty, outside   *)
(* the text, inside a character or, from a pattern, below the floor.       *)
TypeOK ==
  /\ ner \in BOOLEAN /\ operator \in Operators /\ stage \in Stages
  /\ hits \in Seq(Hit)
  /\ \A i \in DOMAIN hits :
       /\ hits[i].start < hits[i].end
       /\ hits[i].type \in RegexEntities => hits[i].score >= Floor
  /\ \A S \in {todo, kept, regex, given} : S \subseteq DOMAIN hits
  /\ cursor \in 0..Length /\ copied \subseteq 0..(Length - 1) /\ newLen \in Nat
  /\ ops \in Seq(Op)

(* The survivors of a resolve never overlap one another, and a candidate   *)
(* never overlaps two of them: a round that evicts one survivor and loses  *)
(* to another would drop two spans for none.                               *)
SurvivorsApart ==
  /\ \A i, j \in kept : i # j => ~Overlaps(hits[i], hits[j])
  /\ stage \in Resolving =>
       \A i \in todo, k, l \in kept :
         Overlaps(hits[k], hits[i]) /\ Overlaps(hits[l], hits[i]) => k = l

(* The anonymizer applies exactly the spans it was handed: resolving again *)
(* what is resolved already drops nothing, and the rewrite loop never      *)
(* takes its silent `continue`, which would leave a detected span as is.   *)
EverySpanApplied ==
  stage = "done" =>
    /\ Len(ops) = Cardinality(given)
    /\ \A i \in given : \E k \in DOMAIN ops : ops[k].start = hits[i].start /\ ops[k].end = hits[i].end

(* The new text keeps every byte outside the spans it was handed and none  *)
(* inside: the copied gaps and the spans partition the leaf.               *)
Covered(S) == UNION {hits[i].start..(hits[i].end - 1) : i \in S}
NothingElseRewritten == stage = "done" => copied = (0..(Length - 1)) \ Covered(given)

(* The audit trail's new offsets are those of the new text: between two    *)
(* rewritten spans, before the first and after the last lies the same gap  *)
(* as in the original.                                                     *)
OffsetsTrackText ==
  LET n == Len(ops) IN
  /\ \A k \in 1..n : LET shift == IF k = 1 THEN 0 ELSE ops[k - 1].newEnd
                         from == IF k = 1 THEN 0 ELSE ops[k - 1].end
                     IN ops[k].newStart - shift = ops[k].start - from
  /\ stage = "done" /\ n > 0 => newLen - ops[n].newEnd = Length - ops[n].end
=============================================================================
