------------------------------ MODULE SshConnect ------------------------------
(***************************************************************************)
(* Inner::connect of the SSH tunnel: the host-key policy against the       *)
(* known_hosts file (crates/ssh/src/known_hosts.rs), accept-new appends,   *)
(* and the order of authentication (crates/ssh/src/tunnel.rs).             *)
(*                                                                         *)
(* Several dbmcp processes share one known_hosts file.  A process dials    *)
(* once at a time (the session lock), but the blocking job that appends to *)
(* the file is detached from its dial: a dial that times out leaves it     *)
(* running.  Nothing keeps two appends apart, and a write may be cut short *)
(* between them.  There is one bastion host; the lines of other hosts are  *)
(* those whose patterns do not match it.                                   *)
(***************************************************************************)
EXTENDS Naturals, FiniteSets, Sequences

CONSTANTS Procs,     \* dbmcp processes sharing the file
          Keys,      \* host keys, an impostor's included
          TypeOf,    \* the algorithm of a key, as its default preference
          NoKey,
          Modes,     \* values of strict_host_key_checking
          Login,     \* what each process authenticates with
          UserLines, \* lines the user may have written
          MaxLines,  \* bound: no revocation, cut write or append that starts makes the file longer
          MaxJobs,   \* bound: appends of one process in flight
          MaxEdits   \* bound: the user's edits

ASSUME KeysAssumption == NoKey \notin Keys /\ TypeOf \in [Keys -> Nat]
ASSUME ModesAssumption == Modes \subseteq {"yes", "accept-new", "no"}
ASSUME LoginAssumption == Login \in [Procs -> SUBSET {"key", "password"}]

(* A line with the patterns that match our host, and what does not parse   *)
(* or, being pieces of several lines, names no host.                       *)
Line == [marker : {"none", "revoked", "cert-authority"}, key : Keys, matches : SUBSET {"host", "!host"}]
        \cup {[marker |-> "malformed", key |-> NoKey, matches |-> {}]}
ASSUME MaxEditsAssumption == MaxEdits \in Nat
ASSUME UserLinesAssumption == UserLines \subseteq Line

Malformed == [marker |-> "malformed", key |-> NoKey, matches |-> {}]
Entry(k) == [marker |-> "none", key |-> k, matches |-> {"host"}]

(* How a dial can end: with an authenticated session, refused for a        *)
(* changed host key, or with any other error.                              *)
Ends == {"up", "changed", "failed"}

(* A server has one host key of each algorithm it supports. *)
Servers == {S \in SUBSET Keys \ {{}} : \A k, l \in S : TypeOf[k] = TypeOf[l] => k = l}

VARIABLES
  mode,     \* strict_host_key_checking of each process
  file,     \* the lines of known_hosts
  ended,    \* whether the last of them ends with a newline
  pc,       \* where each process's dial stands, or how the last one ended
  snap,     \* the dial's copy of the host's keys: recorded and revoked
  offer,    \* the host keys of the server it refused for a changed one
  key,      \* the one negotiated
  changed,  \* key_changed
  jobs,     \* appends in flight: process, number, key, and what is left to write
  edits,    \* made by the user so far
  excused   \* history: dials during which the user removed a line, or an
            \* append wrote that another write had overtaken

dialVars == <<pc, snap, offer, key, changed>>
vars == <<mode, file, ended, dialVars, jobs, edits, excused>>

(* hosts_match: a positive pattern matches and no negated one does. *)
HostsMatch(l) == "host" \in l.matches /\ "!host" \notin l.matches
LinesFor(f, m) == {i \in 1..Len(f) : f[i].marker = m /\ HostsMatch(f[i])}
KeysOf(f, m) == {f[i].key : i \in LinesFor(f, m)}
Recorded(f) == KeysOf(f, "none")

(* KnownHosts::check *)
Check(s, k) ==
  IF k \in s.revoked THEN "revoked"
  ELSE IF k \in s.recorded THEN "match"
  ELSE IF s.recorded # {} THEN "changed"
  ELSE "unknown"

(* Mutant: the algorithms in their default order. *)
PreferDefault(s, S) == S

(* preferred(): what is recorded for the host is offered first. *)
Preferred(s, S) ==
  LET known == {k \in S : \E r \in s.recorded : TypeOf[r] = TypeOf[k]}
  IN  IF known # {} THEN known ELSE S

Empty == [recorded |-> {}, revoked |-> {}]

Init ==
  /\ mode \in [Procs -> Modes]
  /\ file \in {<<>>} \cup {<<l>> : l \in UserLines}
  /\ ended \in BOOLEAN
  /\ file = <<>> => ended
  /\ pc = [p \in Procs |-> "failed"]
  /\ snap = [p \in Procs |-> Empty]
  /\ offer = [p \in Procs |-> {}]
  /\ key = [p \in Procs |-> NoKey]
  /\ changed = [p \in Procs |-> FALSE]
  /\ jobs = {}
  /\ edits = 0
  /\ excused = {}

-----------------------------------------------------------------------------
(* connect()                                                               *)

Goto(p, l) == pc' = [pc EXCEPT ![p] = l]

(* The dial's own state goes with it; the session keeps its key, and what  *)
(* a host was refused for is kept for the properties.                      *)
End(p, o) ==
  /\ Goto(p, o)
  /\ snap' = [snap EXCEPT ![p] = Empty]
  /\ offer' = [offer EXCEPT ![p] = {}]
  /\ key' = [key EXCEPT ![p] = IF o = "up" THEN @ ELSE NoKey]
  /\ changed' = [changed EXCEPT ![p] = FALSE]

(* The file is read anew, off the runtime.  Unreadable, it is ignored when *)
(* checking is off and ends the dial otherwise.                            *)
Begin(p, s) ==
  /\ snap' = [snap EXCEPT ![p] = s]
  /\ offer' = [offer EXCEPT ![p] = {}]
  /\ key' = [key EXCEPT ![p] = NoKey]
  /\ Goto(p, "handshake")
  /\ UNCHANGED changed

Read(p) ==
  /\ pc[p] \in Ends
  /\ \/ Begin(p, [recorded |-> Recorded(file), revoked |-> KeysOf(file, "revoked")])
     \/ mode[p] = "no" /\ Begin(p, Empty)
     \/ mode[p] # "no" /\ End(p, "failed")
  /\ excused' = excused \ {p}
  /\ UNCHANGED <<mode, file, ended, jobs, edits>>

Number(p) == {n \in 1..MaxJobs : \A j \in jobs : j.proc = p => j.n # n}

(* Client::verify: the policy, and the append under accept-new. *)
Accept(p, k, c) ==
  /\ \/ /\ c = "match" \/ (c # "revoked" /\ mode[p] = "no")
        /\ Goto(p, "key")
        /\ UNCHANGED jobs
     \/ /\ c = "unknown"
        /\ mode[p] = "accept-new"
        /\ Len(file) < MaxLines
        /\ Goto(p, "appending")
        /\ \E n \in Number(p) :
             jobs' = jobs \cup {[proc |-> p, n |-> n, key |-> k, step |-> "look",
                                 awaited |-> TRUE, crossed |-> FALSE]}
  /\ key' = [key EXCEPT ![p] = k]
  /\ changed' = [changed EXCEPT ![p] = c = "changed"]
  /\ UNCHANGED <<snap, offer>>

Refuse(p, S, c) ==
  /\ \/ c = "revoked" /\ End(p, "failed")
     \/ c = "unknown" /\ mode[p] = "yes" /\ End(p, "failed")
     \/ /\ c = "changed" /\ mode[p] # "no"
        /\ Goto(p, "changed")
        /\ offer' = [offer EXCEPT ![p] = S]
        /\ UNCHANGED <<snap, key, changed>>
  /\ UNCHANGED jobs

(* The server offers its keys and shows the one negotiated. *)
HostKey(p) ==
  /\ pc[p] = "handshake"
  /\ \E S \in Servers : \E k \in Preferred(snap[p], S) :
       /\ \A l \in Preferred(snap[p], S) : TypeOf[k] <= TypeOf[l]
       /\ Accept(p, k, Check(snap[p], k)) \/ Refuse(p, S, Check(snap[p], k))
  /\ UNCHANGED <<mode, file, ended, edits, excused>>

NoHostKey(p) ==
  /\ pc[p] = "handshake"
  /\ End(p, "failed")
  /\ UNCHANGED <<mode, file, ended, jobs, edits, excused>>

(* No key, or a rejected one: the password is next.  An error is one more  *)
(* reason to try it; without one it ends the dial, as the want of one does *)
(* in PasswordAuth.                                                        *)
Proceed(p) == Goto(p, "password") /\ UNCHANGED <<snap, offer, key, changed>>

KeyAuth(p) ==
  /\ pc[p] = "key"
  /\ \/ Proceed(p)
     \/ "key" \in Login[p] /\ End(p, "up")
  /\ UNCHANGED <<mode, file, ended, jobs, edits, excused>>

(* Mutant: the password without the key_changed filter. *)
PasswordAnyway(p) == "password" \in Login[p]

PasswordAllowed(p) == "password" \in Login[p] /\ ~changed[p]

PasswordAuth(p) ==
  /\ pc[p] = "password"
  /\ IF PasswordAllowed(p)
       THEN Goto(p, "asking") /\ UNCHANGED <<snap, offer, key, changed>>
       ELSE End(p, "failed")
  /\ UNCHANGED <<mode, file, ended, jobs, edits, excused>>

PasswordAnswer(p) ==
  /\ pc[p] = "asking"
  /\ End(p, "up") \/ End(p, "failed")
  /\ UNCHANGED <<mode, file, ended, jobs, edits, excused>>

(* Inner::session's deadline drops the dial, but not its append. *)
Timeout(p) ==
  /\ pc[p] \notin Ends
  /\ End(p, "failed")
  /\ jobs' = {IF j.proc = p THEN [j EXCEPT !.awaited = FALSE] ELSE j : j \in jobs}
  /\ UNCHANGED <<mode, file, ended, edits, excused>>

-----------------------------------------------------------------------------
(* append(), in a blocking job, under no lock: look at the last byte, then *)
(* write a newline if it is none, and the line.                            *)

(* Mutant: the file is assumed to end with a newline. *)
LookNot(j) ==
  /\ j.step = "look"
  /\ jobs' = (jobs \ {j}) \cup {[j EXCEPT !.step = "bare"]}
  /\ UNCHANGED <<mode, file, ended, dialVars, edits, excused>>

Look(j) ==
  /\ j.step = "look"
  /\ jobs' = (jobs \ {j}) \cup {[j EXCEPT !.step = IF ended THEN "bare" ELSE "newline"]}
  /\ UNCHANGED <<mode, file, ended, dialVars, edits, excused>>

(* Appends that looked before a cut write or an edit, or are between their *)
(* own two halves when anything is written: what they saw is out of date.  *)
Crossed(js, steps) == {IF i.step \in steps THEN [i EXCEPT !.crossed = TRUE] ELSE i : i \in js}
Halfway == {"rest", "eol"}
Looked == {"bare", "newline"} \cup Halfway

(* Where the bytes of l go: a line of their own, or on to what is there. *)
Extend(l, step) == IF ended \/ step = "newline" THEN Append(file, l) ELSE [file EXCEPT ![Len(file)] = Malformed]

Excuse(j) == excused' = IF j.crossed THEN Procs ELSE excused

(* write_all makes several writes when the first is cut short: after the   *)
(* newline, within the line, or before its newline.  Bound: once each.     *)
Cut(j) ==
  /\ j.step \in {"bare", "newline"}
  /\ \/ /\ j.step = "newline"
        /\ ended' = TRUE
        /\ jobs' = Crossed(jobs \ {j}, Halfway) \cup {[j EXCEPT !.step = "bare"]}
        /\ UNCHANGED file
     \/ /\ Len(file) < MaxLines
        /\ ended' = FALSE
        /\ \E half \in Halfway :
             /\ file' = Extend(IF half = "eol" THEN Entry(j.key) ELSE Malformed, j.step)
             /\ jobs' = Crossed(jobs \ {j}, Looked) \cup {[j EXCEPT !.step = half]}
  /\ Excuse(j)
  /\ UNCHANGED <<mode, dialVars, edits>>

(* What was left of the line is written. *)
Rest(j) ==
  CASE j.step \in {"bare", "newline"} -> Extend(Entry(j.key), j.step)
    [] j.step = "rest" /\ ~j.crossed  -> [file EXCEPT ![Len(file)] = Entry(j.key)]
    [] j.step = "rest" /\ j.crossed   -> Extend(Malformed, j.step)
    [] j.step = "eol"                 -> file

(* verify() goes on when the job it awaits has ended. *)
Written(j) ==
  /\ j.step \in Looked
  /\ file' = Rest(j)
  /\ ended' = TRUE
  /\ jobs' = Crossed(jobs \ {j}, Halfway)
  /\ IF j.awaited THEN Goto(j.proc, "key") ELSE UNCHANGED pc
  /\ Excuse(j)
  /\ UNCHANGED <<mode, snap, offer, key, changed, edits>>

(* Mutant: an append that failed is no reason to refuse the host. *)
NotWrittenIgnored(j) ==
  /\ jobs' = jobs \ {j}
  /\ IF j.awaited THEN Goto(j.proc, "key") ELSE UNCHANGED pc
  /\ UNCHANGED <<mode, file, ended, snap, offer, key, changed, edits, excused>>

(* An I/O error, before or after a part of the line, refuses the host. *)
NotWritten(j) ==
  /\ jobs' = jobs \ {j}
  /\ IF j.awaited THEN End(j.proc, "failed") ELSE UNCHANGED dialVars
  /\ UNCHANGED <<mode, file, ended, edits, excused>>

-----------------------------------------------------------------------------
(* The process dies with its appends, wherever they are. *)
Crash(p) ==
  /\ End(p, "failed")
  /\ jobs' = {j \in jobs : j.proc # p}
  /\ UNCHANGED <<mode, file, ended, edits, excused>>

(* The user revokes a key or removes a line, in an editor that may or may  *)
(* not end the last line.                                                  *)
Edited ==
  /\ edits < MaxEdits
  /\ edits' = edits + 1
  /\ ended' \in {TRUE, file' = <<>>}
  /\ jobs' = Crossed(jobs, Looked)
  /\ UNCHANGED <<mode, dialVars>>

Revoke(k) ==
  /\ Len(file) < MaxLines
  /\ file' = Append(file, [marker |-> "revoked", key |-> k, matches |-> {"host"}])
  /\ Edited
  /\ UNCHANGED excused

Remove(i) ==
  /\ file' = [n \in 1..(Len(file) - 1) |-> file[IF n < i THEN n ELSE n + 1]]
  /\ Edited
  /\ excused' = Procs

Next ==
  \/ \E p \in Procs : \/ Read(p) \/ HostKey(p) \/ NoHostKey(p) \/ KeyAuth(p)
                      \/ PasswordAuth(p) \/ PasswordAnswer(p) \/ Timeout(p) \/ Crash(p)
  \/ \E j \in jobs : Look(j) \/ Cut(j) \/ Written(j) \/ NotWritten(j)
  \/ \E k \in Keys : Revoke(k)
  \/ \E i \in DOMAIN file : Remove(i)

Spec == Init /\ [][Next]_vars

-----------------------------------------------------------------------------
(* Every variable keeps its type. *)
TypeOK ==
  /\ mode \in [Procs -> Modes]
  /\ file \in Seq(Line)
  /\ ended \in BOOLEAN
  /\ pc \in [Procs -> {"handshake", "appending", "key", "password", "asking"} \cup Ends]
  /\ snap \in [Procs -> [recorded : SUBSET Keys, revoked : SUBSET Keys]]
  /\ offer \in [Procs -> SUBSET Keys]
  /\ key \in [Procs -> Keys \cup {NoKey}]
  /\ changed \in [Procs -> BOOLEAN]
  /\ jobs \in SUBSET [proc : Procs, n : 1..MaxJobs, key : Keys,
                      step : {"look"} \cup Looked, awaited : BOOLEAN, crossed : BOOLEAN]
  /\ edits \in 0..MaxEdits
  /\ excused \in SUBSET Procs

(* A password goes only to a server whose key is not revoked and, if keys  *)
(* are recorded for the host, is one of them; under yes, only to a         *)
(* recorded key (connect, "never hand a password to a host whose key       *)
(* changed").                                                              *)
PasswordOnlyToTrusted ==
  \A p \in Procs : pc[p] = "asking" =>
    /\ key[p] \notin snap[p].revoked
    /\ snap[p].recorded # {} \/ mode[p] = "yes" => key[p] \in snap[p].recorded

(* Unless checking is off, a server is authenticated to only when its key  *)
(* stands in the file, whatever is read, appended, cut short and finished  *)
(* around the dial.  Excused are the two ways in which the code loses a    *)
(* recorded key: append() holds no lock, so one whose look a cut write has *)
(* overtaken merges with what that write left; and the user may remove it. *)
AcceptedIsRecorded ==
  \A p \in Procs :
    mode[p] # "no" /\ pc[p] \in {"key", "password", "asking", "up"} /\ p \notin excused
      => key[p] \in Recorded(file)

(* A server that holds every key recorded for it is never refused for      *)
(* showing another one: the recorded algorithms are negotiated first.      *)
RecordedHostNotRefused ==
  \A p \in Procs : pc[p] = "changed" => ~(snap[p].recorded \subseteq offer[p])

(* A line that ends with its newline is only ever removed by the user, and *)
(* one that does not is damaged only by an append that had looked before a *)
(* cut write or an edit left it so.                                        *)
LinesSurvive ==
  [][\/ \E i \in DOMAIN file : Remove(i)
     \/ \A i \in DOMAIN file :
          ended \/ i < Len(file) \/ (\A j \in jobs \ jobs' : ~j.crossed)
            => file[i] = Malformed \/ (i \in DOMAIN file' /\ file'[i] = file[i])]_vars
=============================================================================
