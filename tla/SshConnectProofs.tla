--------------------------- MODULE SshConnectProofs ---------------------------
(***************************************************************************)
(* The host-key policy for any number of processes, keys and lines.        *)
(***************************************************************************)
EXTENDS SshConnect, SequenceTheorems, TLAPS

Accepted == {"key", "password", "asking"}

(* What a dial that went past the handshake knows of its key. *)
DialInv ==
  \A p \in Procs :
    /\ pc[p] \in {"appending"} \cup Accepted =>
         /\ key[p] \in Keys
         /\ key[p] \notin snap[p].revoked
         /\ changed[p] <=> snap[p].recorded # {} /\ key[p] \notin snap[p].recorded
         /\ mode[p] = "yes" => key[p] \in snap[p].recorded
    /\ pc[p] = "asking" => ~changed[p]
    /\ mode[p] # "no" /\ pc[p] \in Accepted \cup {"up"} /\ p \notin excused => key[p] \in Recorded(file)

(* A copy of the file is never ahead of it, unless its dial is excused. *)
SnapInv == \A p \in Procs \ excused : snap[p].recorded \subseteq Recorded(file)

(* What an append that nothing has overtaken relies on: the newline it saw *)
(* is still there, and so is the half it wrote.                            *)
AsSeen(j) ==
  /\ j.step = "bare" => ended
  /\ j.step \in Halfway => /\ ~ended /\ Len(file) > 0
                           /\ file[Len(file)] = IF j.step = "eol" THEN Entry(j.key) ELSE Malformed

(* A dial awaits at most one append, of its own key; appends are told      *)
(* apart by their numbers.                                                 *)
JobInv ==
  /\ \A j \in jobs : j.awaited => pc[j.proc] = "appending" /\ key[j.proc] = j.key
  /\ \A j \in jobs : ~j.crossed => AsSeen(j)
  /\ \A i, j \in jobs : i.proc = j.proc /\ (i.n = j.n \/ (i.awaited /\ j.awaited)) => i = j

Inv == TypeOK /\ DialInv /\ SnapInv /\ JobInv

(* Keys are read off lines. *)
LEMMA KeysAreKeys ==
  ASSUME NEW f \in Seq(Line), NEW m \in {"none", "revoked"}
  PROVE  KeysOf(f, m) \in SUBSET Keys
BY DEF KeysOf, LinesFor, HostsMatch, Line

(* The appends in flight, as records. *)
Jobs == [proc : Procs, n : 1..MaxJobs, key : Keys, step : {"look"} \cup Looked,
         awaited : BOOLEAN, crossed : BOOLEAN]

(* An overtaken append is the same one, but for what it may rely on. *)
LEMMA CrossedJobs ==
  ASSUME NEW js \in SUBSET Jobs, NEW steps, NEW i \in Crossed(js, steps)
  PROVE  /\ i \in Jobs
         /\ \E h \in js : /\ i.proc = h.proc /\ i.n = h.n /\ i.key = h.key /\ i.step = h.step
                          /\ (i.awaited <=> h.awaited)
                          /\ ~i.crossed => ~h.crossed /\ h.step \notin steps
<1>1. PICK h \in js : i = IF h.step \in steps THEN [h EXCEPT !.crossed = TRUE] ELSE h
  BY DEF Crossed
<1>2. h \in Jobs
  OBVIOUS
<1>3. CASE h.step \in steps
  BY <1>1, <1>2, <1>3 DEF Jobs
<1>4. CASE h.step \notin steps
  BY <1>1, <1>2, <1>4
<1> QED
  BY <1>3, <1>4

(* So it has no double among the overtaken. *)
LEMMA CrossedAlone ==
  ASSUME Inv, NEW js \in SUBSET jobs, NEW steps, NEW i \in Crossed(js, steps), NEW k \in Crossed(js, steps),
         i.proc = k.proc, i.n = k.n \/ (i.awaited /\ k.awaited)
  PROVE  i = k
<1>1. PICK h \in js : i = IF h.step \in steps THEN [h EXCEPT !.crossed = TRUE] ELSE h
  BY DEF Crossed
<1>2. PICK g \in js : k = IF g.step \in steps THEN [g EXCEPT !.crossed = TRUE] ELSE g
  BY DEF Crossed
<1>3. h \in Jobs /\ g \in Jobs
  BY DEF Inv, TypeOK, Jobs
<1>4. h.proc = i.proc /\ h.n = i.n /\ (h.awaited <=> i.awaited)
  BY <1>1, <1>3 DEF Jobs
<1>5. g.proc = k.proc /\ g.n = k.n /\ (g.awaited <=> k.awaited)
  BY <1>2, <1>3 DEF Jobs
<1>6. h = g
  BY <1>4, <1>5 DEF Inv, JobInv
<1> QED
  BY <1>1, <1>2, <1>6

(* An append is not among the others, overtaken or not. *)
LEMMA JobGone ==
  ASSUME Inv, NEW j \in jobs, NEW steps, NEW i \in Crossed(jobs \ {j}, steps)
  PROVE  ~(i.proc = j.proc /\ i.n = j.n)
<1>1. PICK h \in jobs \ {j} : i = IF h.step \in steps THEN [h EXCEPT !.crossed = TRUE] ELSE h
  BY DEF Crossed
<1>2. h \in Jobs
  BY DEF Inv, TypeOK, Jobs
<1>3. i.proc = h.proc /\ i.n = h.n
  BY <1>1, <1>2 DEF Jobs
<1> QED
  BY <1>3 DEF Inv, JobInv

(* Bytes that start a line of their own leave every line alone; those that *)
(* go on to an unfinished one leave the others alone.                      *)
LEMMA ExtendKeeps ==
  ASSUME file \in Seq(Line), NEW l \in Line, NEW step
  PROVE  /\ Extend(l, step) \in Seq(Line)
         /\ \A i \in DOMAIN file :
              i \in DOMAIN Extend(l, step) /\ (i # Len(file) => Extend(l, step)[i] = file[i])
         /\ ended \/ step = "newline" => /\ Extend(l, step) = Append(file, l)
                                /\ \A i \in DOMAIN file : Extend(l, step)[i] = file[i]
                                /\ Len(Append(file, l)) = Len(file) + 1
                                /\ Append(file, l)[Len(file) + 1] = l
<1>1. Malformed \in Line
  BY DEF Malformed, Line
<1>2. CASE ended \/ step = "newline"
  BY <1>2 DEF Extend
<1>3. CASE ~(ended \/ step = "newline")
  <2>1. Extend(l, step) = [file EXCEPT ![Len(file)] = Malformed]
    BY <1>3 DEF Extend
  <2>2. DOMAIN [file EXCEPT ![Len(file)] = Malformed] = DOMAIN file
    OBVIOUS
  <2>4. [file EXCEPT ![Len(file)] = Malformed] \in Seq(Line)
    <3>1. CASE Len(file) = 0
      <4>1. file = <<>>
        BY <3>1
      <4>2. [file EXCEPT ![Len(file)] = Malformed] = file
        BY <4>1
      <4> QED
        BY <4>2
    <3>2. CASE Len(file) # 0
      <4>1. Len(file) \in 1..Len(file)
        BY <3>2
      <4> QED
        BY <1>1, <4>1, ExceptSeq
    <3> QED
      BY <3>1, <3>2
  <2>3. \A i \in DOMAIN file : i # Len(file) => [file EXCEPT ![Len(file)] = Malformed][i] = file[i]
    OBVIOUS
  <2> QED
    BY <1>3, <2>1, <2>2, <2>3, <2>4
<1> QED
  BY <1>2, <1>3

(* Every line that parses is where it was. *)
Kept == \A i \in DOMAIN file : i \in DOMAIN file' /\ (file[i] = Malformed \/ file'[i] = file[i])

(* Only the last line, unfinished, is not, and an overtaken append wrote. *)
Merged ==
  /\ ~ended
  /\ excused' = Procs
  /\ \E j \in jobs \ jobs' : j.crossed
  /\ \A i \in DOMAIN file : i \in DOMAIN file' /\ (i # Len(file) => file'[i] = file[i])

(* A write keeps every line, or is an overtaken append's; once all is      *)
(* written the key is recorded, or likewise.                               *)
LEMMA WriteKeeps ==
  ASSUME Inv, NEW j \in jobs
  PROVE  /\ Cut(j) => file' \in Seq(Line) /\ (Kept \/ Merged)
         /\ Written(j) => /\ file' \in Seq(Line) /\ (Kept \/ Merged)
                          /\ j.key \in Recorded(file') \/ excused' = Procs
<1>1. /\ file \in Seq(Line) /\ j \in Jobs /\ j.key \in Keys /\ j.crossed \in BOOLEAN
      /\ Malformed \in Line /\ Entry(j.key) \in Line /\ (~j.crossed => AsSeen(j))
  BY DEF Inv, TypeOK, JobInv, Jobs, Malformed, Entry, Line
<1>2. (Cut(j) \/ Written(j)) /\ j.crossed => excused' = Procs
  BY DEF Cut, Written, Excuse
<1>3. Cut(j) \/ Written(j) => j \notin jobs'
  <2>1. CASE Written(j)
    BY <2>1, JobGone DEF Written
  <2>2. CASE Cut(j)
    <3>1. j.step \in {"bare", "newline"}
      BY <2>2 DEF Cut
    <3>2. \A half \in Halfway : [j EXCEPT !.step = half] # j
      BY <1>1, <3>1 DEF Jobs, Halfway
    <3>3. j.step = "newline" => [j EXCEPT !.step = "bare"] # j
      BY <1>1 DEF Jobs
    <3>4. \A steps : j \notin Crossed(jobs \ {j}, steps)
      BY JobGone
    <3> QED
      BY <2>2, <3>2, <3>3, <3>4 DEF Cut
  <2> QED
    BY <2>1, <2>2
<1>4. ASSUME NEW l \in Line, NEW step, file' = Extend(l, step),
             ended \/ step = "newline" \/ j.crossed, Cut(j) \/ Written(j)
      PROVE  /\ file' \in Seq(Line)
             /\ Kept \/ Merged
             /\ ended \/ step = "newline" => l = file'[Len(file')] /\ Len(file') > 0
  <2>1. CASE ended \/ step = "newline"
    <3>1. /\ file' = Append(file, l) /\ file' \in Seq(Line)
          /\ \A i \in DOMAIN file : i \in DOMAIN file' /\ file'[i] = file[i]
      BY <1>1, <1>4, <2>1, ExtendKeeps
    <3>2. Len(file') = Len(file) + 1 /\ file'[Len(file) + 1] = l /\ Len(file) \in Nat
      BY <1>1, <3>1
    <3> QED
      BY <3>1, <3>2 DEF Kept
  <2>2. CASE ~(ended \/ step = "newline")
    <3>1. file' \in Seq(Line) /\ \A i \in DOMAIN file : i \in DOMAIN file' /\ (i # Len(file) => file'[i] = file[i])
      BY <1>1, <1>4, ExtendKeeps
    <3> QED
      BY <1>2, <1>3, <1>4, <2>2, <3>1 DEF Merged
  <2> QED
    BY <2>1, <2>2
<1>5. ASSUME file' \in Seq(Line), Len(file') > 0, file'[Len(file')] = Entry(j.key)
      PROVE  j.key \in Recorded(file')
  BY <1>5 DEF Recorded, KeysOf, LinesFor, HostsMatch, Entry
<1>6. ASSUME Cut(j) PROVE file' \in Seq(Line) /\ (Kept \/ Merged)
  <2>1. j.step \in {"bare", "newline"}
    BY <1>6 DEF Cut
  <2>2. ended \/ j.step = "newline" \/ j.crossed
    BY <1>1, <2>1 DEF AsSeen
  <2>3. ASSUME UNCHANGED file PROVE file' \in Seq(Line) /\ Kept
    BY <1>1, <2>3 DEF Kept
  <2>4. ASSUME NEW half \in Halfway,
               file' = Extend(IF half = "eol" THEN Entry(j.key) ELSE Malformed, j.step)
        PROVE  file' \in Seq(Line) /\ (Kept \/ Merged)
    <3>1. (IF half = "eol" THEN Entry(j.key) ELSE Malformed) \in Line
      BY <1>1
    <3> QED
      BY <1>4, <1>6, <2>2, <2>4, <3>1
  <2> QED
    BY <1>6, <2>3, <2>4 DEF Cut
<1>7. ASSUME Written(j)
      PROVE  file' \in Seq(Line) /\ (Kept \/ Merged) /\ (j.key \in Recorded(file') \/ excused' = Procs)
  <2>1. file' = Rest(j) /\ j.step \in {"bare", "newline", "rest", "eol"}
    BY <1>7 DEF Written, Looked, Halfway
  <2>2. CASE j.step \in {"bare", "newline"}
    <3>1. file' = Extend(Entry(j.key), j.step) /\ (ended \/ j.step = "newline" \/ j.crossed)
      BY <1>1, <2>1, <2>2 DEF Rest, AsSeen
    <3>3. /\ file' \in Seq(Line)
          /\ Kept \/ Merged
          /\ ended \/ j.step = "newline" => Entry(j.key) = file'[Len(file')] /\ Len(file') > 0
      BY <1>1, <1>4, <1>7, <3>1
    <3> QED
      BY <1>2, <1>7, <1>5, <3>1, <3>3
  <2>3. CASE j.step = "rest" /\ j.crossed
    <3>1. file' = Extend(Malformed, j.step)
      BY <2>1, <2>3 DEF Rest
    <3>2. file' \in Seq(Line) /\ (Kept \/ Merged)
      BY <1>1, <1>4, <1>7, <2>3, <3>1
    <3> QED
      BY <1>2, <1>7, <2>3, <3>2
  <2>4. CASE j.step = "rest" /\ ~j.crossed
    <3>1. file' = [file EXCEPT ![Len(file)] = Entry(j.key)]
      BY <2>1, <2>4 DEF Rest
    <3>2. Len(file) > 0 /\ file[Len(file)] = Malformed
      BY <1>1, <2>4 DEF AsSeen, Halfway
    <3>3. file' \in Seq(Line) /\ Len(file') = Len(file) /\ file'[Len(file')] = Entry(j.key)
      BY <1>1, <3>1, <3>2
    <3>4. Kept
      BY <1>1, <3>1, <3>2, <3>3 DEF Kept
    <3> QED
      BY <1>5, <3>2, <3>3, <3>4
  <2>5. CASE j.step = "eol"
    <3>1. file' = file
      BY <2>1, <2>5 DEF Rest
    <3>2. ~j.crossed => Len(file) > 0 /\ file[Len(file)] = Entry(j.key)
      BY <1>1, <2>5 DEF AsSeen, Halfway
    <3> QED
      BY <1>1, <1>2, <1>7, <1>5, <3>1, <3>2 DEF Kept
  <2> QED
    BY <2>1, <2>2, <2>3, <2>4, <2>5
<1> QED
  BY <1>6, <1>7

(* Every step keeps every line that parses, merges an overtaken append, or *)
(* is the user's removal.                                                  *)
LEMMA FileStep ==
  Inv /\ [Next]_vars => /\ file' \in Seq(Line)
                        /\ Kept \/ Merged \/ \E i \in DOMAIN file : Remove(i)
<1> SUFFICES ASSUME Inv, [Next]_vars
             PROVE  /\ file' \in Seq(Line)
                    /\ Kept \/ Merged \/ \E i \in DOMAIN file : Remove(i)
  OBVIOUS
<1>0. file \in Seq(Line)
  BY DEF Inv, TypeOK
<1>1. ASSUME UNCHANGED file PROVE file' \in Seq(Line) /\ Kept
  BY <1>0, <1>1 DEF Kept
<1>2. CASE UNCHANGED vars
  BY <1>1, <1>2 DEF vars
<1>3. ASSUME NEW p \in Procs, Read(p) \/ HostKey(p) \/ NoHostKey(p) \/ KeyAuth(p)
                              \/ PasswordAuth(p) \/ PasswordAnswer(p) \/ Timeout(p) \/ Crash(p)
      PROVE  UNCHANGED file
  BY <1>3 DEF Read, HostKey, NoHostKey, KeyAuth, PasswordAuth, PasswordAnswer, Timeout, Crash
<1>4. ASSUME NEW j \in jobs, Look(j) \/ NotWritten(j) PROVE UNCHANGED file
  BY <1>4 DEF Look, NotWritten
<1>5. ASSUME NEW j \in jobs, Cut(j) \/ Written(j) PROVE file' \in Seq(Line) /\ (Kept \/ Merged)
  BY <1>5, WriteKeeps
<1>6. ASSUME NEW k \in Keys, Revoke(k) PROVE file' \in Seq(Line) /\ Kept
  <2>1. PICK l \in Line : file' = Append(file, l)
    BY <1>6 DEF Revoke, Line
  <2> QED
    BY <1>0, <2>1 DEF Kept
<1>7. ASSUME NEW i \in DOMAIN file, Remove(i) PROVE file' \in Seq(Line)
  <2>1. file' = [n \in 1..(Len(file) - 1) |-> file[IF n < i THEN n ELSE n + 1]]
    BY <1>7 DEF Remove
  <2>2. \A n \in 1..(Len(file) - 1) : file[IF n < i THEN n ELSE n + 1] \in Line
    BY <1>0
  <2>3. Len(file) - 1 \in Nat
    BY <1>0
  <2> QED
    BY <2>1, <2>2, <2>3
<1> QED
  BY <1>1, <1>2, <1>3, <1>4, <1>5, <1>6, <1>7 DEF Next

(* So a key is lost only where the dials are excused. *)
LEMMA KeysSurvive ==
  Inv /\ [Next]_vars => /\ file' \in Seq(Line)
                        /\ excused' = Procs \/ Recorded(file) \subseteq Recorded(file')
<1> SUFFICES ASSUME Inv, [Next]_vars
             PROVE  file' \in Seq(Line) /\ (excused' = Procs \/ Recorded(file) \subseteq Recorded(file'))
  OBVIOUS
<1>1. file \in Seq(Line) /\ file' \in Seq(Line)
  BY FileStep DEF Inv, TypeOK
<1>2. CASE Kept
  <2>1. \A i \in LinesFor(file, "none") : file[i] # Malformed /\ i \in DOMAIN file /\ i \in DOMAIN file'
    BY <1>1, <1>2 DEF Kept, LinesFor, Malformed
  <2>2. \A i \in LinesFor(file, "none") : i \in LinesFor(file', "none") /\ file'[i] = file[i]
    BY <1>1, <1>2, <2>1 DEF Kept, LinesFor
  <2> QED
    BY <1>1, <2>2 DEF Recorded, KeysOf
<1>3. CASE Merged
  BY <1>1, <1>3 DEF Merged
<1>4. ASSUME NEW i \in DOMAIN file, Remove(i) PROVE excused' = Procs
  BY <1>4 DEF Remove
<1> QED
  BY <1>1, <1>2, <1>3, <1>4, FileStep

(* A dial stays excused until it begins anew. *)
LEMMA ExcusedStays ==
  ASSUME Inv, [Next]_vars, NEW q \in Procs, q \notin excused', ~Read(q)
  PROVE  q \notin excused
<1>1. CASE UNCHANGED vars
  BY <1>1 DEF vars
<1>2. ASSUME NEW p \in Procs, Read(p) PROVE q \notin excused
  BY <1>2 DEF Read
<1>3. ASSUME NEW p \in Procs, HostKey(p) \/ NoHostKey(p) \/ KeyAuth(p) \/ PasswordAuth(p)
                              \/ PasswordAnswer(p) \/ Timeout(p) \/ Crash(p)
      PROVE  UNCHANGED excused
  BY <1>3 DEF HostKey, NoHostKey, KeyAuth, PasswordAuth, PasswordAnswer, Timeout, Crash
<1>4. ASSUME NEW j \in jobs, Look(j) \/ Cut(j) \/ Written(j) \/ NotWritten(j) PROVE q \notin excused
  BY <1>4 DEF Look, Cut, Written, NotWritten, Excuse
<1>5. ASSUME NEW k \in Keys, Revoke(k) PROVE UNCHANGED excused
  BY <1>5 DEF Revoke
<1>6. ASSUME NEW i \in DOMAIN file, Remove(i) PROVE FALSE
  BY <1>6 DEF Remove
<1> QED
  BY <1>1, <1>2, <1>3, <1>4, <1>5, <1>6 DEF Next

(* The types of what a dial keeps, and of the rest. *)
Dialing == {"handshake", "appending", "key", "password", "asking"} \cup Ends
Copies == [recorded : SUBSET Keys, revoked : SUBSET Keys]

DialType ==
  /\ pc \in [Procs -> Dialing]
  /\ snap \in [Procs -> Copies]
  /\ offer \in [Procs -> SUBSET Keys]
  /\ key \in [Procs -> Keys \cup {NoKey}]
  /\ changed \in [Procs -> BOOLEAN]
RestType ==
  /\ mode \in [Procs -> Modes]
  /\ file \in Seq(Line)
  /\ ended \in BOOLEAN
  /\ jobs \in SUBSET Jobs
  /\ edits \in 0..MaxEdits
  /\ excused \in SUBSET Procs

(* The types, split into those of a dial and those of the rest. *)
LEMMA Types == (TypeOK <=> DialType /\ RestType) /\ (TypeOK' <=> DialType' /\ RestType')
BY DEF TypeOK, DialType, RestType, Dialing, Copies, Jobs

(* Overtaken appends are appends. *)
LEMMA CrossedType ==
  ASSUME NEW js \in SUBSET Jobs, NEW steps
  PROVE  Crossed(js, steps) \in SUBSET Jobs
BY CrossedJobs

(* An overtaken append excuses all, and no other excuses anyone. *)
LEMMA ExcuseType ==
  ASSUME excused \in SUBSET Procs, NEW j, Excuse(j)
  PROVE  excused' \in SUBSET Procs
BY DEF Excuse

(* A dial that moves on, begins or ends keeps the types. *)
LEMMA GotoType ==
  ASSUME DialType, NEW p \in Procs, NEW l \in Dialing, Goto(p, l)
  PROVE  pc' \in [Procs -> Dialing]
BY DEF DialType, Goto

(* Ending a dial keeps the types of the dials. *)
LEMMA EndType ==
  ASSUME DialType, NEW p \in Procs, NEW o \in Ends, End(p, o)
  PROVE  DialType'
<1>1. o \in Dialing /\ Goto(p, o) /\ Empty \in Copies
  BY DEF Dialing, End, Empty, Copies
<1>2. pc' \in [Procs -> Dialing]
  BY <1>1, GotoType
<1> QED
  BY <1>1, <1>2 DEF DialType, End

(* Beginning a dial with a copy of the file keeps them too. *)
LEMMA BeginType ==
  ASSUME DialType, NEW p \in Procs, NEW s \in Copies, Begin(p, s)
  PROVE  DialType'
<1>1. "handshake" \in Dialing /\ Goto(p, "handshake")
  BY DEF Dialing, Begin
<1>2. pc' \in [Procs -> Dialing]
  BY <1>1, GotoType
<1> QED
  BY <1>2 DEF DialType, Begin

(* Every action preserves the types. *)
LEMMA TypeStep == Inv /\ [Next]_vars => TypeOK'
<1> SUFFICES ASSUME Inv, [Next]_vars PROVE DialType' /\ RestType'
  BY Types
<1>1. DialType /\ RestType /\ file' \in Seq(Line)
  BY KeysSurvive, Types DEF Inv
<1>2. KeysOf(file, "none") \in SUBSET Keys /\ KeysOf(file, "revoked") \in SUBSET Keys
  BY <1>1, KeysAreKeys DEF RestType
<1> USE <1>1
<1>a. {"up", "changed", "failed"} \subseteq Dialing /\ {"up", "changed", "failed"} \subseteq Ends
      /\ {"handshake", "appending", "key", "password", "asking"} \subseteq Dialing
  BY DEF Dialing, Ends
<1>3. CASE UNCHANGED vars
  BY <1>3 DEF vars, dialVars, DialType, RestType
<1>4. ASSUME NEW p \in Procs, Read(p) PROVE DialType' /\ RestType'
  <2>1. [recorded |-> Recorded(file), revoked |-> KeysOf(file, "revoked")] \in Copies /\ Empty \in Copies
    BY <1>2 DEF Copies, Recorded, Empty
  <2>2. DialType'
    BY <1>4, <1>a, <2>1, EndType, BeginType DEF Read
  <2> QED
    BY <1>4, <2>2 DEF Read, RestType
<1>5. ASSUME NEW p \in Procs, HostKey(p) PROVE DialType' /\ RestType'
  <2>1. PICK S \in Servers : \E k \in Preferred(snap[p], S) :
               Accept(p, k, Check(snap[p], k)) \/ Refuse(p, S, Check(snap[p], k))
    BY <1>5 DEF HostKey
  <2>2. S \in SUBSET Keys
    BY DEF Servers
  <2>3. PICK k \in Keys : Accept(p, k, Check(snap[p], k)) \/ Refuse(p, S, Check(snap[p], k))
    BY <2>1, <2>2 DEF Preferred
  <2>4. CASE Accept(p, k, Check(snap[p], k))
    <3>1. pc' \in [Procs -> Dialing]
      BY <1>a, <2>4, GotoType DEF Accept
    <3>2. DialType'
      BY <2>4, <3>1 DEF Accept, DialType
    <3>3. jobs' \in SUBSET Jobs
      <4>1. \A n \in Number(p) :
              [proc |-> p, n |-> n, key |-> k, step |-> "look", awaited |-> TRUE, crossed |-> FALSE] \in Jobs
        BY DEF Jobs, Number
      <4> QED
        BY <2>4, <4>1 DEF Accept, RestType
    <3> QED
      BY <1>5, <3>2, <3>3 DEF HostKey, RestType
  <2>5. CASE Refuse(p, S, Check(snap[p], k))
    <3>1. ASSUME End(p, "failed") PROVE DialType'
      BY <1>a, <3>1, EndType
    <3>2. ASSUME Goto(p, "changed"), offer' = [offer EXCEPT ![p] = S], UNCHANGED <<snap, key, changed>>
          PROVE  DialType'
      BY <1>a, <2>2, <3>2, GotoType DEF DialType
    <3>3. DialType'
      BY <2>5, <3>1, <3>2 DEF Refuse
    <3> QED
      BY <1>5, <2>5, <3>3 DEF Refuse, HostKey, RestType
  <2> QED
    BY <2>3, <2>4, <2>5
<1>6. ASSUME NEW p \in Procs, NoHostKey(p) \/ KeyAuth(p) \/ PasswordAuth(p) \/ PasswordAnswer(p)
      PROVE  DialType' /\ RestType'
  <2>1. ASSUME End(p, "up") \/ End(p, "failed") PROVE DialType'
    BY <1>a, <2>1, EndType
  <2>2. ASSUME Goto(p, "asking") \/ Goto(p, "password"), UNCHANGED <<snap, offer, key, changed>>
        PROVE  DialType'
    BY <1>a, <2>2, GotoType DEF DialType
  <2>3. DialType'
    BY <1>6, <2>1, <2>2 DEF NoHostKey, KeyAuth, PasswordAuth, PasswordAnswer, Proceed
  <2> QED
    BY <1>6, <2>3 DEF NoHostKey, KeyAuth, PasswordAuth, PasswordAnswer, RestType
<1>7. ASSUME NEW p \in Procs, Timeout(p) PROVE DialType' /\ RestType'
  <2>1. DialType'
    BY <1>7, <1>a, EndType DEF Timeout
  <2>2. \A j \in jobs : j \in Jobs /\ [j EXCEPT !.awaited = FALSE] \in Jobs
    BY DEF RestType, Jobs
  <2>3. jobs' \in SUBSET Jobs
    BY <1>7, <2>2 DEF Timeout
  <2> QED
    BY <1>7, <2>1, <2>3 DEF Timeout, RestType
<1>8. ASSUME NEW p \in Procs, Crash(p) PROVE DialType' /\ RestType'
  <2>1. DialType'
    BY <1>8, <1>a, EndType DEF Crash
  <2> QED
    BY <1>8, <2>1 DEF Crash, RestType
<1>9. ASSUME NEW j \in jobs, Look(j) PROVE DialType' /\ RestType'
  BY <1>9 DEF Look, Looked, dialVars, DialType, RestType, Jobs
<1>10. ASSUME NEW j \in jobs, Written(j) PROVE DialType' /\ RestType'
  <2>1. j.proc \in Procs /\ jobs \ {j} \in SUBSET Jobs
    BY DEF RestType, Jobs
  <2>2. pc' \in [Procs -> Dialing]
    BY <1>10, <1>a, <2>1, GotoType DEF Written, DialType
  <2>3. jobs' \in SUBSET Jobs /\ excused' \in SUBSET Procs
    BY <1>10, <2>1, CrossedType, ExcuseType DEF Written, RestType
  <2> QED
    BY <1>10, <2>2, <2>3 DEF Written, DialType, RestType
<1>13. ASSUME NEW j \in jobs, Cut(j) PROVE DialType' /\ RestType'
  <2>1. jobs \ {j} \in SUBSET Jobs
    BY DEF RestType
  <2>2. \A step \in {"bare", "rest", "eol"} : [j EXCEPT !.step = step] \in Jobs
    BY DEF RestType, Jobs, Looked, Halfway
  <2>3. jobs' \in SUBSET Jobs
    BY <1>13, <2>1, <2>2, CrossedType DEF Cut, Halfway
  <2>4. excused' \in SUBSET Procs
    BY <1>13, ExcuseType DEF Cut, RestType
  <2> QED
    BY <1>13, <2>3, <2>4 DEF Cut, dialVars, DialType, RestType
<1>11. ASSUME NEW j \in jobs, NotWritten(j) PROVE DialType' /\ RestType'
  <2>1. j.proc \in Procs
    BY DEF RestType, Jobs
  <2>2. DialType'
    BY <1>11, <1>a, <2>1, EndType DEF NotWritten, DialType, dialVars
  <2> QED
    BY <1>11, <2>2 DEF NotWritten, RestType
<1>12. ASSUME Edited, excused' \in SUBSET Procs PROVE DialType' /\ RestType'
  <2>1. jobs' \in SUBSET Jobs /\ ended' \in BOOLEAN
    BY <1>12, CrossedType DEF Edited, RestType
  <2>2. edits' \in 0..MaxEdits
    BY <1>12, MaxEditsAssumption DEF Edited, RestType
  <2> QED
    BY <1>12, <2>1, <2>2 DEF Edited, dialVars, DialType, RestType
<1>14. ASSUME NEW k \in Keys, Revoke(k) PROVE DialType' /\ RestType'
  BY <1>12, <1>14 DEF Revoke, RestType
<1>15. ASSUME NEW i \in DOMAIN file, Remove(i) PROVE DialType' /\ RestType'
  BY <1>12, <1>15 DEF Remove
<1> QED
  BY <1>3, <1>4, <1>5, <1>6, <1>7, <1>8, <1>9, <1>10, <1>11, <1>13, <1>14, <1>15 DEF Next

(* One dial's part of DialInv. *)
DialOK(p) ==
  /\ pc[p] \in {"appending"} \cup Accepted =>
       /\ key[p] \in Keys
       /\ key[p] \notin snap[p].revoked
       /\ changed[p] <=> snap[p].recorded # {} /\ key[p] \notin snap[p].recorded
       /\ mode[p] = "yes" => key[p] \in snap[p].recorded
  /\ pc[p] = "asking" => ~changed[p]
  /\ mode[p] # "no" /\ pc[p] \in Accepted \cup {"up"} /\ p \notin excused => key[p] \in Recorded(file)

(* The invariant of the dials is the conjunction of one part per process. *)
LEMMA DialParts == (DialInv <=> \A p \in Procs : DialOK(p)) /\ (DialInv' <=> \A p \in Procs : DialOK(p)')
BY DEF DialInv, DialOK

(* A dial nothing is done to keeps its part while the file grows, or it is *)
(* excused.                                                                *)
LEMMA DialKept ==
  ASSUME NEW p \in Procs, DialOK(p),
         p \notin excused' => p \notin excused /\ Recorded(file) \subseteq Recorded(file'),
         UNCHANGED <<mode, pc[p], snap[p], key[p], changed[p]>>
  PROVE  DialOK(p)'
BY DEF DialOK

(* A dial that ends has its key recorded if it ends up. *)
LEMMA DialEnds ==
  ASSUME TypeOK, NEW p \in Procs, NEW o \in Ends, End(p, o), UNCHANGED mode,
         o = "up" /\ mode[p] # "no" /\ p \notin excused' => key[p] \in Recorded(file')
  PROVE  /\ DialOK(p)'
         /\ \A q \in Procs \ {p} : UNCHANGED <<pc[q], snap[q], key[q], changed[q]>>
<1>1. /\ pc'[p] = o /\ o \notin {"appending"} \cup Accepted
      /\ o = "up" => key'[p] = key[p]
      /\ \A q \in Procs \ {p} : UNCHANGED <<pc[q], snap[q], key[q], changed[q]>>
  BY DEF TypeOK, End, Goto, Ends, Accepted
<1> QED
  BY <1>1 DEF DialOK, Accepted

(* What the dials know of their keys stays true. *)
LEMMA DialStep == Inv /\ [Next]_vars => DialInv'
<1> SUFFICES ASSUME Inv, [Next]_vars, NEW q \in Procs PROVE DialOK(q)'
  BY DialParts
<1>1. /\ TypeOK /\ DialOK(q) /\ SnapInv /\ JobInv
      /\ q \notin excused' => Recorded(file) \subseteq Recorded(file')
  BY DialParts, KeysSurvive DEF Inv
<1>r. CASE Read(q)
  <2>1. pc'[q] \in {"handshake", "failed"}
    BY <1>1, <1>r DEF TypeOK, Read, Begin, End, Goto
  <2> QED
    BY <2>1 DEF DialOK, Accepted
<1>2. ASSUME UNCHANGED <<mode, pc[q], snap[q], key[q], changed[q]>> PROVE DialOK(q)'
  <2>1. CASE Read(q)
    BY <1>r, <2>1
  <2>2. CASE ~Read(q)
    BY <1>1, <1>2, <2>2, ExcusedStays, DialKept
  <2> QED
    BY <2>1, <2>2
<1>3. ASSUME NEW p \in Procs, End(p, "failed"), UNCHANGED mode PROVE DialOK(q)'
  BY <1>1, <1>2, <1>3, DialEnds DEF Ends
<1>4. CASE UNCHANGED vars
  BY <1>2, <1>4 DEF vars, dialVars
<1>5. ASSUME NEW p \in Procs, Read(p) PROVE DialOK(q)'
  <2>1. CASE End(p, "failed")
    BY <1>3, <1>5, <2>1 DEF Read
  <2>2. ASSUME NEW s, Begin(p, s) PROVE DialOK(q)'
    <3>1. CASE q = p
      BY <1>5, <1>r, <3>1
    <3>2. CASE q # p
      BY <1>1, <1>2, <1>5, <2>2, <3>2 DEF TypeOK, Read, Begin, Goto
    <3> QED
      BY <3>1, <3>2
  <2> QED
    BY <1>5, <2>1, <2>2 DEF Read
<1>6. ASSUME NEW p \in Procs, HostKey(p) PROVE DialOK(q)'
  <2>1. PICK S \in Servers : \E k \in Preferred(snap[p], S) :
               Accept(p, k, Check(snap[p], k)) \/ Refuse(p, S, Check(snap[p], k))
    BY <1>6 DEF HostKey
  <2>2. PICK k \in Keys : Accept(p, k, Check(snap[p], k)) \/ Refuse(p, S, Check(snap[p], k))
    BY <2>1 DEF Preferred, Servers
  <2>3. UNCHANGED <<mode, file, excused>>
    BY <1>6 DEF HostKey
  <2>4. CASE Accept(p, k, Check(snap[p], k)) /\ q = p
    <3>1. /\ key'[p] = k /\ snap'[p] = snap[p] /\ pc'[p] \in {"key", "appending"}
          /\ changed'[p] = (Check(snap[p], k) = "changed")
      BY <1>1, <2>4 DEF TypeOK, Accept, Goto
    <3>2. /\ pc'[p] = "key" => Check(snap[p], k) = "match" \/ (Check(snap[p], k) # "revoked" /\ mode[p] = "no")
          /\ pc'[p] = "appending" => Check(snap[p], k) = "unknown" /\ mode[p] = "accept-new"
      BY <1>1, <2>4 DEF TypeOK, Accept, Goto
    <3>3. k \notin snap[p].revoked
      BY <3>1, <3>2 DEF Check
    <3>4. (Check(snap[p], k) = "changed") <=> snap[p].recorded # {} /\ k \notin snap[p].recorded
      BY <3>3 DEF Check
    <3>5. mode[p] # "no" /\ pc'[p] = "key" => k \in snap[p].recorded
      BY <3>2 DEF Check
    <3>6. p \notin excused' => snap[p].recorded \subseteq Recorded(file')
      BY <1>1, <2>3 DEF SnapInv
    <3> QED
      BY <2>2, <2>3, <2>4, <3>1, <3>2, <3>3, <3>4, <3>5, <3>6 DEF DialOK, Accepted
  <2>5. CASE Accept(p, k, Check(snap[p], k)) /\ q # p
    BY <1>1, <1>2, <2>3, <2>5 DEF TypeOK, Accept, Goto
  <2>6. CASE Refuse(p, S, Check(snap[p], k))
    <3>1. CASE End(p, "failed")
      BY <1>3, <2>3, <3>1
    <3>2. CASE Goto(p, "changed") /\ UNCHANGED <<snap, key, changed>>
      <4>1. CASE q = p
        BY <1>1, <3>2, <4>1 DEF TypeOK, Goto, DialOK, Accepted
      <4>2. CASE q # p
        BY <1>1, <1>2, <2>3, <3>2, <4>2 DEF TypeOK, Goto
      <4> QED
        BY <4>1, <4>2
    <3> QED
      BY <2>6, <3>1, <3>2 DEF Refuse
  <2> QED
    BY <2>2, <2>4, <2>5, <2>6
<1>7. ASSUME NEW p \in Procs, NoHostKey(p) \/ Timeout(p) \/ Crash(p) PROVE DialOK(q)'
  BY <1>3, <1>7 DEF NoHostKey, Timeout, Crash
<1>8. ASSUME NEW p \in Procs, pc[p] \in Accepted, End(p, "up"), UNCHANGED <<mode, excused>> PROVE DialOK(q)'
  <2>1. mode[p] # "no" /\ p \notin excused' => key[p] \in Recorded(file')
    BY <1>1, <1>8, KeysSurvive DEF Inv, DialInv
  <2> QED
    BY <1>1, <1>2, <1>8, <2>1, DialEnds DEF Ends
<1>9. ASSUME NEW p \in Procs, KeyAuth(p) \/ PasswordAuth(p) \/ PasswordAnswer(p) PROVE DialOK(q)'
  <2>1. UNCHANGED <<mode, excused>>
    BY <1>9 DEF KeyAuth, PasswordAuth, PasswordAnswer
  <2>2. CASE End(p, "failed")
    BY <1>3, <2>1, <2>2
  <2>3. CASE End(p, "up")
    BY <1>8, <1>9, <2>1, <2>3 DEF KeyAuth, PasswordAuth, PasswordAnswer, Accepted
  <2>4. CASE /\ UNCHANGED <<snap, key, changed>>
             /\ \/ pc[p] = "key" /\ Goto(p, "password")
                \/ pc[p] = "password" /\ PasswordAllowed(p) /\ Goto(p, "asking")
    <3>1. CASE q = p
      BY <1>1, <2>1, <2>4, <3>1 DEF TypeOK, Goto, DialOK, Accepted, PasswordAllowed
    <3>2. CASE q # p
      BY <1>1, <1>2, <2>1, <2>4, <3>2 DEF TypeOK, Goto
    <3> QED
      BY <3>1, <3>2
  <2> QED
    BY <1>9, <2>2, <2>3, <2>4 DEF KeyAuth, PasswordAuth, PasswordAnswer, Proceed
<1>10. ASSUME NEW j \in jobs, Look(j) \/ Cut(j) PROVE DialOK(q)'
  BY <1>2, <1>10 DEF Look, Cut, dialVars
<1>11. ASSUME NEW j \in jobs, Written(j) PROVE DialOK(q)'
  <2>1. j.proc \in Procs /\ j.key \in Keys
    BY <1>1 DEF TypeOK
  <2>2. j.key \in Recorded(file') \/ q \in excused'
    BY <1>11, WriteKeeps
  <2>3. CASE j.awaited /\ q = j.proc
    <3>1. pc[q] = "appending" /\ key[q] = j.key
      BY <1>1, <2>3 DEF JobInv
    <3>2. pc'[q] = "key" /\ UNCHANGED <<mode, snap, key, changed>>
      BY <1>1, <1>11, <2>3 DEF TypeOK, Written, Goto
    <3> QED
      BY <1>1, <2>2, <3>1, <3>2 DEF DialOK, Accepted
  <2>4. CASE ~j.awaited \/ q # j.proc
    BY <1>1, <1>2, <1>11, <2>4 DEF TypeOK, Written, Goto
  <2> QED
    BY <2>3, <2>4
<1>12. ASSUME NEW j \in jobs, NotWritten(j) PROVE DialOK(q)'
  <2>1. j.proc \in Procs /\ UNCHANGED mode
    BY <1>1, <1>12 DEF TypeOK, NotWritten
  <2>2. CASE End(j.proc, "failed")
    BY <1>3, <2>1, <2>2
  <2>3. CASE UNCHANGED dialVars
    BY <1>2, <2>1, <2>3 DEF dialVars
  <2> QED
    BY <1>12, <2>2, <2>3 DEF NotWritten
<1>13. ASSUME Edited PROVE DialOK(q)'
  BY <1>2, <1>13 DEF Edited, dialVars
<1> QED
  BY <1>4, <1>5, <1>6, <1>7, <1>9, <1>10, <1>11, <1>12, <1>13 DEF Next, Revoke, Remove

(* A copy is taken from the file or dropped, and the file only grows, *)
(* or the dial is excused.                                                 *)
LEMMA SnapStep == Inv /\ [Next]_vars => SnapInv'
<1> SUFFICES ASSUME Inv, [Next]_vars, NEW q \in Procs, q \notin excused'
             PROVE  snap'[q].recorded \subseteq Recorded(file')
  BY DEF SnapInv
<1>1. TypeOK /\ SnapInv /\ Recorded(file) \subseteq Recorded(file')
  BY KeysSurvive DEF Inv
<1>r. CASE Read(q)
  <2>1. snap'[q] = Empty \/ snap'[q] = [recorded |-> Recorded(file), revoked |-> KeysOf(file, "revoked")]
    BY <1>1, <1>r DEF TypeOK, Read, Begin, End
  <2> QED
    BY <1>1, <2>1 DEF Empty
<1>2. ASSUME snap'[q] = snap[q] \/ snap'[q] = Empty
                \/ snap'[q] = [recorded |-> Recorded(file), revoked |-> KeysOf(file, "revoked")]
      PROVE  snap'[q].recorded \subseteq Recorded(file')
  <2>1. CASE Read(q)
    BY <1>r, <2>1
  <2>2. CASE ~Read(q)
    BY <1>1, <1>2, <2>2, ExcusedStays DEF SnapInv, Empty
  <2> QED
    BY <2>1, <2>2
<1>3. ASSUME NEW p \in Procs, NEW o, End(p, o) PROVE snap'[q].recorded \subseteq Recorded(file')
  BY <1>1, <1>2, <1>3 DEF TypeOK, End
<1>4. CASE UNCHANGED vars
  BY <1>2, <1>4 DEF vars, dialVars
<1>5. ASSUME NEW p \in Procs, Read(p) PROVE snap'[q].recorded \subseteq Recorded(file')
  BY <1>1, <1>2, <1>3, <1>5 DEF TypeOK, Read, Begin
<1>6. ASSUME NEW p \in Procs, HostKey(p) PROVE snap'[q].recorded \subseteq Recorded(file')
  BY <1>2, <1>3, <1>6 DEF HostKey, Accept, Refuse
<1>7. ASSUME NEW p \in Procs, NoHostKey(p) \/ KeyAuth(p) \/ PasswordAuth(p) \/ PasswordAnswer(p)
                              \/ Timeout(p) \/ Crash(p)
      PROVE  snap'[q].recorded \subseteq Recorded(file')
  BY <1>2, <1>3, <1>7
  DEF NoHostKey, KeyAuth, PasswordAuth, PasswordAnswer, Proceed, Timeout, Crash
<1>8. ASSUME NEW j \in jobs, Look(j) \/ Cut(j) \/ Written(j) \/ NotWritten(j)
      PROVE  snap'[q].recorded \subseteq Recorded(file')
  <2>1. j.proc \in Procs
    BY <1>1 DEF TypeOK
  <2> QED
    BY <1>2, <1>3, <1>8, <2>1 DEF Look, Cut, Written, NotWritten, dialVars
<1>9. ASSUME Edited PROVE snap'[q].recorded \subseteq Recorded(file')
  BY <1>2, <1>9 DEF Edited, dialVars
<1> QED
  BY <1>4, <1>5, <1>6, <1>7, <1>8, <1>9 DEF Next, Revoke, Remove

(* What holds of the other appends, overtaken or not. *)
Others(j, js) ==
  /\ \A i \in js : i.proc = j.proc => i.n # j.n /\ ~(i.awaited /\ j.awaited)
  /\ \A i \in js : i.awaited => pc[i.proc] = "appending" /\ key[i.proc] = i.key
  /\ \A h, i \in js : h.proc = i.proc /\ (h.n = i.n \/ (h.awaited /\ i.awaited)) => h = i

(* An append that moves on, beside others that still rely on what is so.   *)
LEMMA JobMoves ==
  ASSUME JobInv, NEW j \in jobs, j \in Jobs, NEW step, NEW js, Others(j, js),
         jobs' = js \cup {[j EXCEPT !.step = step]},
         \A i \in js : ~i.crossed => AsSeen(i)',
         ~j.crossed => AsSeen([j EXCEPT !.step = step])',
         UNCHANGED <<pc, key>>
  PROVE  JobInv'
<1>1. PICK k : /\ jobs' = js \cup {k}
               /\ k.proc = j.proc /\ k.n = j.n /\ k.key = j.key
               /\ (k.awaited <=> j.awaited) /\ (k.crossed <=> j.crossed)
               /\ ~k.crossed => AsSeen(k)'
  <2> DEFINE new == [j EXCEPT !.step = step]
  <2>1. /\ new.proc = j.proc /\ new.n = j.n /\ new.key = j.key
        /\ (new.awaited <=> j.awaited) /\ (new.crossed <=> j.crossed)
    BY DEF Jobs
  <2>2. jobs' = js \cup {new} /\ (~j.crossed => AsSeen(new)')
    OBVIOUS
  <2> HIDE DEF new
  <2> QED
    BY <2>1, <2>2
<1>2. j.awaited => pc[j.proc] = "appending" /\ key[j.proc] = j.key
  BY DEF JobInv
<1>3. \A i \in jobs' : i.awaited => pc'[i.proc] = "appending" /\ key'[i.proc] = i.key
  BY <1>1, <1>2 DEF Others
<1>4. \A i \in jobs' : ~i.crossed => AsSeen(i)'
  BY <1>1
<1>5. \A h, i \in jobs' : h.proc = i.proc /\ (h.n = i.n \/ (h.awaited /\ i.awaited)) => h = i
  BY <1>1 DEF Others
<1> QED
  BY <1>3, <1>4, <1>5 DEF JobInv

(* The others are so, and those that something overtakes rely on less.     *)
LEMMA OthersCrossed ==
  ASSUME Inv, NEW j \in jobs, NEW steps
  PROVE  /\ Others(j, jobs \ {j})
         /\ Others(j, Crossed(jobs \ {j}, steps))
         /\ \A i \in Crossed(jobs \ {j}, steps) :
              ~i.crossed => i.step \notin steps /\ (i.step = "bare" => ended) /\ i.step \in {"look"} \cup Looked
<1>1. /\ JobInv /\ jobs \in SUBSET Jobs
      /\ jobs \ {j} \in SUBSET Jobs /\ jobs \ {j} \in SUBSET jobs
  BY DEF Inv, TypeOK, Jobs
<1>2. \A i \in Crossed(jobs \ {j}, steps) : \E h \in jobs \ {j} :
        /\ i.proc = h.proc /\ i.n = h.n /\ i.key = h.key /\ i.step = h.step /\ (i.awaited <=> h.awaited)
        /\ ~i.crossed => ~h.crossed /\ h.step \notin steps
  <2> SUFFICES ASSUME NEW i \in Crossed(jobs \ {j}, steps)
               PROVE  \E h \in jobs \ {j} :
                        /\ i.proc = h.proc /\ i.n = h.n /\ i.key = h.key /\ i.step = h.step
                        /\ (i.awaited <=> h.awaited)
                        /\ ~i.crossed => ~h.crossed /\ h.step \notin steps
    OBVIOUS
  <2> QED
    BY <1>1, CrossedJobs
<1>3. \A h, i \in Crossed(jobs \ {j}, steps) :
        h.proc = i.proc /\ (h.n = i.n \/ (h.awaited /\ i.awaited)) => h = i
  BY <1>1, CrossedAlone
<1>4. \A h \in jobs \ {j} : h.proc = j.proc => h.n # j.n /\ ~(h.awaited /\ j.awaited)
  BY <1>1 DEF JobInv
<1>5. \A h \in jobs \ {j} : h.awaited => pc[h.proc] = "appending" /\ key[h.proc] = h.key
  BY <1>1 DEF JobInv
<1>6. \A h \in jobs \ {j} : ~h.crossed => (h.step = "bare" => ended)
  BY <1>1 DEF JobInv, AsSeen
<1>7. \A h \in jobs \ {j} : h.step \in {"look"} \cup Looked
  BY <1>1 DEF Jobs
<1>8. Others(j, jobs \ {j})
  BY <1>1, <1>4, <1>5 DEF Others, JobInv
<1>9. ASSUME NEW i \in Crossed(jobs \ {j}, steps)
      PROVE  /\ i.proc = j.proc => i.n # j.n /\ ~(i.awaited /\ j.awaited)
             /\ i.awaited => pc[i.proc] = "appending" /\ key[i.proc] = i.key
             /\ ~i.crossed => i.step \notin steps /\ (i.step = "bare" => ended) /\ i.step \in {"look"} \cup Looked
  <2>1. PICK h \in jobs \ {j} :
          /\ i.proc = h.proc /\ i.n = h.n /\ i.key = h.key /\ i.step = h.step /\ (i.awaited <=> h.awaited)
          /\ ~i.crossed => ~h.crossed /\ h.step \notin steps
    BY <1>2
  <2> QED
    BY <1>4, <1>5, <1>6, <1>7, <2>1
<1> QED
  BY <1>3, <1>8, <1>9 DEF Others

(* The dial behind an awaited append stays where it is, and what an append *)
(* relies on stays true until something overtakes it.                      *)
LEMMA JobStep == Inv /\ [Next]_vars => JobInv'
<1> SUFFICES ASSUME Inv, [Next]_vars PROVE JobInv'
  OBVIOUS
<1>1. TypeOK /\ JobInv /\ jobs \in SUBSET Jobs
  BY DEF Inv, TypeOK, Jobs
<1>2. ASSUME NEW p \in Procs, pc[p] # "appending", UNCHANGED <<file, ended, jobs>>,
             \A q \in Procs \ {p} : UNCHANGED <<pc[q], key[q]>>
      PROVE  JobInv'
  BY <1>1, <1>2 DEF TypeOK, JobInv, AsSeen
<1>3. ASSUME NEW p \in Procs, NEW o, End(p, o)
      PROVE  \A q \in Procs \ {p} : UNCHANGED <<pc[q], key[q]>>
  BY <1>1, <1>3 DEF TypeOK, End, Goto
<1>4. CASE UNCHANGED vars
  BY <1>1, <1>4 DEF vars, dialVars, JobInv, AsSeen
<1>5. ASSUME NEW p \in Procs, Read(p) PROVE JobInv'
  <2>1. \A q \in Procs \ {p} : UNCHANGED <<pc[q], key[q]>>
    BY <1>1, <1>3, <1>5 DEF TypeOK, Read, Begin, Goto
  <2> QED
    BY <1>2, <1>5, <2>1 DEF Read, Ends
<1>6. ASSUME NEW p \in Procs, HostKey(p) PROVE JobInv'
  <2>1. PICK S \in Servers, k \in Keys :
          Accept(p, k, Check(snap[p], k)) \/ Refuse(p, S, Check(snap[p], k))
    BY <1>6 DEF HostKey, Preferred, Servers
  <2>2. \A q \in Procs \ {p} : UNCHANGED <<pc[q], key[q]>>
    BY <1>1, <1>3, <2>1 DEF TypeOK, Accept, Refuse, Goto
  <2>3. CASE UNCHANGED jobs
    BY <1>2, <1>6, <2>2, <2>3 DEF HostKey
  <2>4. ASSUME NEW n \in Number(p), Goto(p, "appending"), key' = [key EXCEPT ![p] = k],
               jobs' = jobs \cup {[proc |-> p, n |-> n, key |-> k, step |-> "look",
                                   awaited |-> TRUE, crossed |-> FALSE]}
        PROVE  JobInv'
    <3>1. pc'[p] = "appending" /\ key'[p] = k /\ UNCHANGED <<file, ended>>
      BY <1>1, <1>6, <2>4 DEF TypeOK, Goto, HostKey
    <3>2. \A j \in jobs : j.proc = p => ~j.awaited /\ j.n # n
      BY <1>1, <1>6, <2>4 DEF JobInv, HostKey, Number
    <3>3. PICK j : /\ jobs' = jobs \cup {j}
                   /\ j.proc = p /\ j.n = n /\ j.key = k /\ j.step = "look" /\ j.awaited = TRUE
      <4> DEFINE new == [proc |-> p, n |-> n, key |-> k, step |-> "look",
                         awaited |-> TRUE, crossed |-> FALSE]
      <4>1. new.proc = p /\ new.n = n /\ new.key = k /\ new.step = "look" /\ new.awaited = TRUE
        OBVIOUS
      <4>2. jobs' = jobs \cup {new}
        BY <2>4
      <4> HIDE DEF new
      <4> QED
        BY <4>1, <4>2
    <3>4. \A i \in jobs :
            /\ i.proc \in Procs
            /\ i.awaited => i.proc # p /\ pc'[i.proc] = "appending" /\ key'[i.proc] = i.key
            /\ ~i.crossed => AsSeen(i)'
      BY <1>1, <2>2, <3>1, <3>2 DEF TypeOK, JobInv, AsSeen
    <3>5. \A i \in jobs' :
            /\ i.awaited => pc'[i.proc] = "appending" /\ key'[i.proc] = i.key
            /\ ~i.crossed => AsSeen(i)'
      BY <3>1, <3>3, <3>4 DEF AsSeen, Halfway
    <3>6. \A h, i \in jobs' : h.proc = i.proc /\ (h.n = i.n \/ (h.awaited /\ i.awaited)) => h = i
      BY <1>1, <3>2, <3>3, <3>4 DEF JobInv
    <3> QED
      BY <3>5, <3>6 DEF JobInv
  <2> QED
    BY <2>1, <2>3, <2>4 DEF Accept, Refuse
<1>7. ASSUME NEW p \in Procs, NoHostKey(p) \/ KeyAuth(p) \/ PasswordAuth(p) \/ PasswordAnswer(p)
      PROVE  JobInv'
  <2>1. pc[p] # "appending" /\ UNCHANGED <<file, ended, jobs>>
    BY <1>7 DEF NoHostKey, KeyAuth, PasswordAuth, PasswordAnswer
  <2>2. \A q \in Procs \ {p} : UNCHANGED <<pc[q], key[q]>>
    BY <1>1, <1>3, <1>7 DEF TypeOK, NoHostKey, KeyAuth, PasswordAuth, PasswordAnswer, Proceed, Goto
  <2> QED
    BY <1>2, <2>1, <2>2
<1>8. ASSUME NEW p \in Procs, Timeout(p) PROVE JobInv'
  <2>1. UNCHANGED <<file, ended>> /\ \A q \in Procs \ {p} : UNCHANGED <<pc[q], key[q]>>
    BY <1>3, <1>8 DEF Timeout
  <2>2. \A i \in jobs' : \E j \in jobs :
          /\ i = IF j.proc = p THEN [j EXCEPT !.awaited = FALSE] ELSE j
          /\ i.proc = j.proc /\ i.n = j.n /\ i.key = j.key /\ i.step = j.step /\ (i.crossed <=> j.crossed)
          /\ i.awaited => j.awaited /\ j.proc # p
    <3>1. ASSUME NEW j \in jobs, NEW i, i = [j EXCEPT !.awaited = FALSE]
          PROVE  /\ i.proc = j.proc /\ i.n = j.n /\ i.key = j.key /\ i.step = j.step
                 /\ (i.crossed <=> j.crossed) /\ ~i.awaited
      BY <1>1, <3>1 DEF Jobs
    <3>2. jobs' = {IF j.proc = p THEN [j EXCEPT !.awaited = FALSE] ELSE j : j \in jobs}
      BY <1>8 DEF Timeout
    <3> QED
      BY <3>1, <3>2
  <2>3. \A i \in jobs' :
          /\ i.awaited => pc'[i.proc] = "appending" /\ key'[i.proc] = i.key
          /\ ~i.crossed => AsSeen(i)'
    BY <1>1, <2>1, <2>2 DEF JobInv, AsSeen, Jobs
  <2>4. ASSUME NEW h \in jobs', NEW i \in jobs', h.proc = i.proc, h.n = i.n \/ (h.awaited /\ i.awaited)
        PROVE  h = i
    <3>1. PICK g \in jobs : /\ h = IF g.proc = p THEN [g EXCEPT !.awaited = FALSE] ELSE g
                            /\ h.proc = g.proc /\ h.n = g.n
                            /\ h.awaited => g.awaited
      BY <2>2
    <3>2. PICK k \in jobs : /\ i = IF k.proc = p THEN [k EXCEPT !.awaited = FALSE] ELSE k
                            /\ i.proc = k.proc /\ i.n = k.n
                            /\ i.awaited => k.awaited
      BY <2>2
    <3>3. g = k
      BY <1>1, <2>4, <3>1, <3>2 DEF JobInv
    <3> QED
      BY <3>1, <3>2, <3>3
  <2> QED
    BY <2>3, <2>4 DEF JobInv
<1>9. ASSUME NEW p \in Procs, Crash(p) PROVE JobInv'
  <2>1. \A q \in Procs \ {p} : UNCHANGED <<pc[q], key[q]>>
    BY <1>3, <1>9 DEF Crash
  <2>2. jobs' = {j \in jobs : j.proc # p} /\ UNCHANGED <<file, ended>>
    BY <1>9 DEF Crash
  <2> QED
    BY <1>1, <2>1, <2>2 DEF TypeOK, JobInv, AsSeen
<1>10. ASSUME NEW j \in jobs, Look(j) PROVE JobInv'
  <2>1. PICK step \in {"bare", "newline"} :
          jobs' = (jobs \ {j}) \cup {[j EXCEPT !.step = step]} /\ (step = "bare" => ended)
    BY <1>10 DEF Look
  <2>2. UNCHANGED <<file, ended, pc, key>>
    BY <1>10 DEF Look, dialVars
  <2>3. AsSeen([j EXCEPT !.step = step])'
    BY <1>1, <2>1, <2>2 DEF AsSeen, Jobs, Halfway
  <2>4. \A i \in jobs \ {j} : ~i.crossed => AsSeen(i)'
    BY <1>1, <2>2 DEF JobInv, AsSeen
  <2>5. Others(j, jobs \ {j})
    BY OthersCrossed
  <2> QED
    BY <1>1, <2>1, <2>2, <2>3, <2>4, <2>5, JobMoves
<1>11. ASSUME NEW j \in jobs, Cut(j) PROVE JobInv'
  <2>1. UNCHANGED <<pc, key>> /\ j.step \in {"bare", "newline"} /\ file \in Seq(Line) /\ j \in Jobs
    BY <1>1, <1>11 DEF Cut, dialVars, TypeOK
  <2>2. CASE ended' = TRUE /\ jobs' = Crossed(jobs \ {j}, Halfway) \cup {[j EXCEPT !.step = "bare"]}
    <3>1. \A i \in Crossed(jobs \ {j}, Halfway) : ~i.crossed => AsSeen(i)'
      BY <2>2, OthersCrossed DEF AsSeen
    <3>2. AsSeen([j EXCEPT !.step = "bare"])'
      BY <2>1, <2>2 DEF AsSeen, Jobs, Halfway
    <3>3. Others(j, Crossed(jobs \ {j}, Halfway))
      BY OthersCrossed
    <3> QED
      BY <1>1, <2>1, <2>2, <3>1, <3>2, <3>3, JobMoves
  <2>3. ASSUME NEW half \in Halfway, ended' = FALSE,
               file' = Extend(IF half = "eol" THEN Entry(j.key) ELSE Malformed, j.step),
               jobs' = Crossed(jobs \ {j}, Looked) \cup {[j EXCEPT !.step = half]}
        PROVE  JobInv'
    <3>1. \A i \in Crossed(jobs \ {j}, Looked) : ~i.crossed => AsSeen(i)'
      BY OthersCrossed DEF AsSeen, Halfway, Looked
    <3>2. ASSUME ~j.crossed PROVE AsSeen([j EXCEPT !.step = half])'
      <4>1. ended \/ j.step = "newline"
        BY <1>1, <2>1, <3>2 DEF JobInv, AsSeen
      <4>2. (IF half = "eol" THEN Entry(j.key) ELSE Malformed) \in Line
        BY <2>1 DEF Entry, Malformed, Line, Jobs
      <4>3. /\ file' = Append(file, IF half = "eol" THEN Entry(j.key) ELSE Malformed)
            /\ Len(file') = Len(file) + 1
            /\ file'[Len(file) + 1] = IF half = "eol" THEN Entry(j.key) ELSE Malformed
        BY <2>1, <2>3, <4>1, <4>2, ExtendKeeps
      <4>4. [j EXCEPT !.step = half].step = half /\ [j EXCEPT !.step = half].key = j.key
        BY <2>1 DEF Jobs
      <4>5. Len(file) \in Nat
        BY <2>1
      <4> QED
        BY <2>3, <4>3, <4>4, <4>5 DEF AsSeen, Halfway
    <3>3. Others(j, Crossed(jobs \ {j}, Looked))
      BY OthersCrossed
    <3> QED
      BY <1>1, <2>1, <2>3, <3>1, <3>2, <3>3, JobMoves
  <2> QED
    BY <1>11, <2>2, <2>3 DEF Cut
<1>12. ASSUME NEW j \in jobs, Written(j) PROVE JobInv'
  <2>1. /\ jobs' = Crossed(jobs \ {j}, Halfway) /\ ended' = TRUE /\ UNCHANGED key
        /\ IF j.awaited THEN Goto(j.proc, "key") ELSE UNCHANGED pc
        /\ j.proc \in Procs
    BY <1>1, <1>12 DEF Written, Jobs
  <2>2. \A i \in jobs' : ~i.crossed => AsSeen(i)'
    BY <2>1, OthersCrossed DEF AsSeen
  <2>3. Others(j, jobs')
    BY <2>1, OthersCrossed
  <2>4. \A i \in jobs' : i.awaited => pc'[i.proc] = pc[i.proc]
    <3>1. CASE j.awaited
      <4>1. pc' = [pc EXCEPT ![j.proc] = "key"]
        BY <2>1, <3>1 DEF Goto
      <4>2. \A i \in jobs' : i.awaited => i.proc # j.proc
        BY <2>3, <3>1 DEF Others
      <4> QED
        BY <1>1, <4>1, <4>2 DEF TypeOK
    <3>2. CASE ~j.awaited
      BY <2>1, <3>2
    <3> QED
      BY <3>1, <3>2
  <2>5. \A i \in jobs' : i.awaited => pc'[i.proc] = "appending" /\ key'[i.proc] = i.key
    BY <2>1, <2>3, <2>4 DEF Others
  <2>6. \A h, i \in jobs' : h.proc = i.proc /\ (h.n = i.n \/ (h.awaited /\ i.awaited)) => h = i
    BY <2>3 DEF Others
  <2> QED
    BY <2>2, <2>5, <2>6 DEF JobInv
<1>13. ASSUME NEW j \in jobs, NotWritten(j) PROVE JobInv'
  <2>1. j.proc \in Procs /\ jobs' = jobs \ {j} /\ UNCHANGED <<file, ended>>
    BY <1>1, <1>13 DEF TypeOK, NotWritten
  <2>2. CASE j.awaited
    <3>1. \A q \in Procs \ {j.proc} : UNCHANGED <<pc[q], key[q]>>
      BY <1>3, <1>13, <2>1, <2>2 DEF NotWritten
    <3> QED
      BY <1>1, <2>1, <2>2, <3>1 DEF TypeOK, JobInv, AsSeen
  <2>3. CASE ~j.awaited
    BY <1>1, <1>13, <2>1, <2>3 DEF NotWritten, JobInv, AsSeen, dialVars
  <2> QED
    BY <2>2, <2>3
<1>14. ASSUME Edited PROVE JobInv'
  <2>1. jobs' = Crossed(jobs, Looked) /\ UNCHANGED <<pc, key>>
    BY <1>14 DEF Edited, dialVars
  <2>2. \A i \in jobs' : \E h \in jobs :
          /\ i.proc = h.proc /\ i.key = h.key /\ (i.awaited <=> h.awaited) /\ i.step = h.step
          /\ ~i.crossed => h.step \notin Looked
    <3> SUFFICES ASSUME NEW i \in Crossed(jobs, Looked)
                 PROVE  \E h \in jobs :
                          /\ i.proc = h.proc /\ i.key = h.key /\ (i.awaited <=> h.awaited) /\ i.step = h.step
                          /\ ~i.crossed => h.step \notin Looked
      BY <2>1
    <3> QED
      BY <1>1, CrossedJobs
  <2>3. \A i \in jobs' : /\ i.awaited => pc'[i.proc] = "appending" /\ key'[i.proc] = i.key
                         /\ ~i.crossed => AsSeen(i)'
    <3>1. \A h \in jobs : h.awaited => pc[h.proc] = "appending" /\ key[h.proc] = h.key
      BY <1>1 DEF JobInv
    <3>2. \A h \in jobs : h.step \in {"look"} \cup Looked
      BY <1>1 DEF Jobs
    <3>3. ASSUME NEW i \in jobs'
          PROVE  /\ i.awaited => pc'[i.proc] = "appending" /\ key'[i.proc] = i.key
                 /\ ~i.crossed => i.step = "look"
      <4>1. PICK h \in jobs : /\ i.proc = h.proc /\ i.key = h.key /\ (i.awaited <=> h.awaited) /\ i.step = h.step
                              /\ ~i.crossed => h.step \notin Looked
        BY <2>2
      <4> QED
        BY <2>1, <3>1, <3>2, <4>1
    <3> QED
      BY <3>3 DEF AsSeen, Halfway
  <2>4. \A h, i \in jobs' : h.proc = i.proc /\ (h.n = i.n \/ (h.awaited /\ i.awaited)) => h = i
    BY <2>1, CrossedAlone
  <2> QED
    BY <2>3, <2>4 DEF JobInv
<1> QED
  BY <1>4, <1>5, <1>6, <1>7, <1>8, <1>9, <1>10, <1>11, <1>12, <1>13, <1>14 DEF Next, Revoke, Remove

(* The inductive invariant holds in every reachable state. *)
THEOREM Invariant == Spec => []Inv
<1>1. Init => Inv
  <2> SUFFICES ASSUME Init PROVE Inv
    OBVIOUS
  <2>1. file \in Seq(Line)
    <3>1. CASE file = <<>>
      BY <3>1
    <3>2. ASSUME NEW l \in UserLines, file = <<l>> PROVE file \in Seq(Line)
      BY <3>2, UserLinesAssumption
    <3> QED
      BY <3>1, <3>2 DEF Init
  <2>2. TypeOK
    BY <2>1, KeysAssumption, MaxEditsAssumption DEF Init, TypeOK, Ends, Empty
  <2>3. DialInv /\ SnapInv /\ JobInv
    BY DEF Init, DialInv, SnapInv, JobInv, Accepted, Empty
  <2> QED
    BY <2>2, <2>3 DEF Inv
<1>2. Inv /\ [Next]_vars => Inv'
  BY TypeStep, DialStep, SnapStep, JobStep DEF Inv
<1> QED
  BY <1>1, <1>2, PTL DEF Spec

(* Every reachable state is well typed. *)
THEOREM TypeCorrect == Spec => []TypeOK
BY Invariant, PTL DEF Inv

(* No password is ever sent to a server whose key is revoked, or differs   *)
(* from what is recorded for the host.                                     *)
THEOREM PasswordAlwaysTrusted == Spec => []PasswordOnlyToTrusted
<1>1. Inv => PasswordOnlyToTrusted
  BY DEF Inv, DialInv, PasswordOnlyToTrusted, Accepted
<1> QED
  BY <1>1, Invariant, PTL

(* Unless checking is off, only servers whose key stands in the file are   *)
(* authenticated to, whatever any number of processes append at once,      *)
(* except where a cut write overtook an append or the user removed a line. *)
THEOREM AcceptedAlwaysRecorded == Spec => []AcceptedIsRecorded
<1>1. Inv => AcceptedIsRecorded
  BY DEF Inv, DialInv, AcceptedIsRecorded, Accepted
<1> QED
  BY <1>1, Invariant, PTL

(* A finished line stays until the user removes it, and an unfinished one  *)
(* until an append that something has overtaken writes.                    *)
THEOREM LinesAlwaysSurvive == Spec => LinesSurvive
<1>1. ASSUME Inv, [Next]_vars
      PROVE  \/ \E i \in DOMAIN file : Remove(i)
             \/ \A i \in DOMAIN file :
                  ended \/ i < Len(file) \/ (\A j \in jobs \ jobs' : ~j.crossed)
                    => file[i] = Malformed \/ (i \in DOMAIN file' /\ file'[i] = file[i])
  <2>1. CASE Kept
    BY <2>1 DEF Kept
  <2>2. CASE Merged
    BY <2>2 DEF Merged, Inv, TypeOK
  <2> QED
    BY <1>1, <2>1, <2>2, FileStep
<1>2. Inv /\ [Next]_vars =>
        [\/ \E i \in DOMAIN file : Remove(i)
         \/ \A i \in DOMAIN file :
              ended \/ i < Len(file) \/ (\A j \in jobs \ jobs' : ~j.crossed)
                => file[i] = Malformed \/ (i \in DOMAIN file' /\ file'[i] = file[i])]_vars
  BY <1>1
<1> QED
  BY <1>2, Invariant, PTL DEF Spec, LinesSurvive

(* Of a server that holds every recorded key, the key negotiated is one of *)
(* them: a recorded algorithm is preferred, and the server has one key of  *)
(* it.                                                                     *)
LEMMA PreferredIsRecorded ==
  ASSUME NEW s, NEW S \in Servers, NEW k \in Preferred(s, S), s.recorded # {}, s.recorded \subseteq S
  PROVE  k \in s.recorded
<1>1. PICK r \in s.recorded : TRUE
  OBVIOUS
<1>2. r \in {l \in S : \E m \in s.recorded : TypeOf[m] = TypeOf[l]}
  BY <1>1
<1>3. k \in S /\ \E m \in s.recorded : TypeOf[m] = TypeOf[k]
  BY <1>2 DEF Preferred
<1>4. PICK m \in s.recorded : TypeOf[m] = TypeOf[k]
  BY <1>3
<1>5. m \in S
  OBVIOUS
<1>6. m = k
  BY <1>3, <1>4, <1>5 DEF Servers
<1> QED
  BY <1>6

(* One dial's part of RecordedHostNotRefused. *)
RefusedOK(p) == pc[p] = "changed" => ~(snap[p].recorded \subseteq offer[p])

(* A host is refused with the copy and the offer it was refused for. *)
LEMMA RefusedStep == Inv /\ RecordedHostNotRefused /\ [Next]_vars => RecordedHostNotRefused'
<1> SUFFICES ASSUME Inv, RecordedHostNotRefused, [Next]_vars, NEW q \in Procs PROVE RefusedOK(q)'
  BY DEF RecordedHostNotRefused, RefusedOK
<1>1. TypeOK /\ RefusedOK(q) /\ JobInv
  BY DEF Inv, RecordedHostNotRefused, RefusedOK
<1>2. ASSUME UNCHANGED <<pc[q], snap[q], offer[q]>> PROVE RefusedOK(q)'
  BY <1>1, <1>2 DEF RefusedOK
<1>3. ASSUME NEW p \in Procs, NEW o \in {"up", "failed"}, End(p, o) PROVE RefusedOK(q)'
  <2>1. CASE q = p
    BY <1>1, <1>3, <2>1 DEF TypeOK, End, Goto, RefusedOK
  <2>2. CASE q # p
    BY <1>1, <1>2, <1>3, <2>2 DEF TypeOK, End, Goto
  <2> QED
    BY <2>1, <2>2
<1>4. ASSUME NEW p \in Procs, NEW l, Goto(p, l), l # "changed", UNCHANGED <<snap, offer>> PROVE RefusedOK(q)'
  <2>1. CASE q = p
    BY <1>1, <1>4, <2>1 DEF TypeOK, Goto, RefusedOK
  <2>2. CASE q # p
    BY <1>1, <1>2, <1>4, <2>2 DEF TypeOK, Goto
  <2> QED
    BY <2>1, <2>2
<1>5. CASE UNCHANGED vars
  BY <1>2, <1>5 DEF vars, dialVars
<1>6. ASSUME NEW p \in Procs, Read(p) PROVE RefusedOK(q)'
  <2>1. ASSUME NEW s, Begin(p, s) PROVE RefusedOK(q)'
    <3>1. CASE q = p
      BY <1>1, <2>1, <3>1 DEF TypeOK, Begin, Goto, RefusedOK
    <3>2. CASE q # p
      BY <1>1, <1>2, <2>1, <3>2 DEF TypeOK, Begin, Goto
    <3> QED
      BY <3>1, <3>2
  <2> QED
    BY <1>3, <1>6, <2>1 DEF Read
<1>7. ASSUME NEW p \in Procs, HostKey(p) PROVE RefusedOK(q)'
  <2>1. PICK S \in Servers : \E k \in Preferred(snap[p], S) :
               Accept(p, k, Check(snap[p], k)) \/ Refuse(p, S, Check(snap[p], k))
    BY <1>7 DEF HostKey
  <2>2. PICK k \in Preferred(snap[p], S) : Accept(p, k, Check(snap[p], k)) \/ Refuse(p, S, Check(snap[p], k))
    BY <2>1
  <2>3. CASE Accept(p, k, Check(snap[p], k))
    BY <1>4, <2>3 DEF Accept
  <2>4. CASE Refuse(p, S, Check(snap[p], k)) /\ ~End(p, "failed")
    <3>1. /\ Check(snap[p], k) = "changed" /\ Goto(p, "changed")
          /\ offer' = [offer EXCEPT ![p] = S] /\ snap' = snap
      BY <2>4 DEF Refuse
    <3>2. snap[p].recorded # {} /\ k \notin snap[p].recorded
      BY <3>1 DEF Check
    <3>3. ~(snap[p].recorded \subseteq S)
      BY <3>2, PreferredIsRecorded
    <3>4. CASE q = p
      BY <1>1, <3>1, <3>3, <3>4 DEF TypeOK, RefusedOK
    <3>5. CASE q # p
      BY <1>1, <1>2, <3>1, <3>5 DEF TypeOK, Goto
    <3> QED
      BY <3>4, <3>5
  <2> QED
    BY <1>3, <2>2, <2>3, <2>4
<1>8. ASSUME NEW p \in Procs, NoHostKey(p) \/ KeyAuth(p) \/ PasswordAuth(p) \/ PasswordAnswer(p)
                              \/ Timeout(p) \/ Crash(p)
      PROVE  RefusedOK(q)'
  BY <1>3, <1>4, <1>8 DEF NoHostKey, KeyAuth, PasswordAuth, PasswordAnswer, Proceed, Timeout, Crash
<1>9. ASSUME NEW j \in jobs, Look(j) \/ Cut(j) \/ Written(j) \/ NotWritten(j) PROVE RefusedOK(q)'
  <2>1. j.proc \in Procs
    BY <1>1 DEF TypeOK
  <2>2. CASE Written(j)
    <3>1. UNCHANGED <<snap, offer>> /\ (Goto(j.proc, "key") \/ UNCHANGED pc)
      BY <2>2 DEF Written
    <3> QED
      BY <1>2, <1>4, <2>1, <3>1
  <2>3. CASE Look(j) \/ Cut(j) \/ NotWritten(j)
    <3>1. End(j.proc, "failed") \/ UNCHANGED dialVars
      BY <2>3 DEF Look, Cut, NotWritten
    <3> QED
      BY <1>2, <1>3, <2>1, <3>1 DEF dialVars
  <2> QED
    BY <1>9, <2>2, <2>3
<1>10. ASSUME Edited PROVE RefusedOK(q)'
  BY <1>2, <1>10 DEF Edited, dialVars
<1> QED
  BY <1>5, <1>6, <1>7, <1>8, <1>9, <1>10 DEF Next, Revoke, Remove

(* A server that holds every key recorded for it is never refused for      *)
(* showing another one.                                                    *)
THEOREM RecordedHostNeverRefused == Spec => []RecordedHostNotRefused
<1>1. Init => RecordedHostNotRefused
  BY DEF Init, RecordedHostNotRefused
<1>2. Inv /\ RecordedHostNotRefused /\ [Next]_vars => RecordedHostNotRefused'
  BY RefusedStep
<1> QED
  BY <1>1, <1>2, Invariant, PTL DEF Spec
=============================================================================
