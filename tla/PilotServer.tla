----------------------------- MODULE PilotServer -----------------------------
(***************************************************************************)
(* The server of tools/glyim-pilot.  Every ops.ready message of the        *)
(* browser extension is handled by tasks of its own: find or create the    *)
(* worktree of its stream and the saved session, take the stream's mark in *)
(* the processing set, apply the file operations, do what the block's      *)
(* directive asks (gates and commit, self-review, push and pull request),  *)
(* clear the mark, answer.  Sessions live in memory and in a state file    *)
(* that is replaced as a whole; the server may be killed at any step and   *)
(* started again.                                                          *)
(***************************************************************************)
EXTENDS Naturals, Sequences

CONSTANTS Streams,       \* session ids of the extension, one stream each
          Turns,         \* the ops.ready messages of a behaviour
          MaxSessions,   \* cap of the session map, 200 in the code
          MaxFixRounds,  \* ExecutionConfig.max_fix_rounds
          MaxCrashes     \* bound: restarts of the server

ASSUME PilotAssumption ==
  /\ MaxSessions \in Nat \ {0}
  /\ MaxFixRounds \in Nat
  /\ MaxCrashes \in Nat

VARIABLES
  stream,      \* the stream of each message
  pc,          \* where the task of each message is
  result,      \* what a turn will answer
  answer,      \* what the extension was sent
  gated,       \* the version of the files a turn's gates have passed
  processing,  \* streams with a turn in progress
  leaked,      \* streams whose mark could not be cleared in time (history)
  mem, disk,   \* sessions in StatePersistence, in the state file
  trees,       \* streams whose worktree directory exists
  content,     \* version of the files of each worktree
  head,        \* version last committed on the stream's branch
  prs,         \* streams with an open pull request
  crashes

mvars == <<stream, gated>>
gvars == <<trees, content, head, prs>>
pvars == <<mem, disk>>
vars == <<mvars, pc, result, answer, processing, leaked, pvars, gvars, crashes>>

(* Sessions by last activity, those with a pr_url and those merged. *)
NoSessions == [order |-> <<>>, pr |-> {}, merged |-> {}]

Known(r) == {r.order[i] : i \in DOMAIN r.order}
DropAt(q, i) == SubSeq(q, 1, i - 1) \o SubSeq(q, i + 1, Len(q))
Drop(q, s) == IF \E i \in DOMAIN q : q[i] = s
              THEN DropAt(q, CHOOSE i \in DOMAIN q : q[i] = s)
              ELSE q
Without(r, s) == [order |-> Drop(r.order, s),
                  pr |-> r.pr \ {s}, merged |-> r.merged \ {s}]
Evict(r) == IF Len(r.order) > MaxSessions THEN Without(r, Head(r.order)) ELSE r
Insert(r, s) == LET others == Without(r, s)
                IN  Evict([others EXCEPT !.order = Append(@, s)])
Touch(r, s) == [r EXCEPT !.order = Append(Without(r, s).order, s)]

Init ==
  /\ stream \in [Turns -> Streams]
  /\ pc = [t \in Turns |-> "unsent"]
  /\ result = [t \in Turns |-> "none"]
  /\ answer = [t \in Turns |-> "none"]
  /\ gated = [t \in Turns |-> 0]
  /\ processing = {} /\ leaked = {}
  /\ mem = NoSessions /\ disk = NoSessions
  /\ trees = {} /\ prs = {}
  /\ content = [s \in Streams |-> 0]
  /\ head = [s \in Streams |-> 0]
  /\ crashes = 0

Goto(t, from, to) == pc[t] = from /\ pc' = [pc EXCEPT ![t] = to]
Ends(t, res) == result' = [result EXCEPT ![t] = res]
Quiet == UNCHANGED <<mvars, answer, processing, leaked, crashes>>

(* The state file is replaced by a rename after an fsync: all or nothing.  *)
(* A save that fails leaves the change in memory.                          *)
Saved(r) == mem' = r /\ disk' = r
SaveFails(r) == mem' = r /\ UNCHANGED disk
-----------------------------------------------------------------------------
(* The message arrives and its task is spawned. *)
Arrive(t) ==
  /\ Goto(t, "unsent", "lookup")
  /\ Quiet /\ UNCHANGED <<result, pvars, gvars>>

(* The session's worktree_path is looked up before the processing mark.    *)
Lookup(t) ==
  /\ \/ stream[t] \in Known(mem) /\ Goto(t, "lookup", "dispatch")
     \/ stream[t] \notin Known(mem) /\ Goto(t, "lookup", "add_tree")
  /\ Quiet /\ UNCHANGED <<result, pvars, gvars>>

(* git worktree add refuses a directory that exists and git checkout -b    *)
(* may fail after it.  A command killed on its timeout, here and below, may *)
(* have done its work before.                                              *)
Tree(s) == trees' = trees \cup {s}

CreateFails(t) ==
  /\ \/ Goto(t, "add_tree", "reply") /\ (Tree(stream[t]) \/ UNCHANGED trees)
     \/ Goto(t, "branch", "reply") /\ UNCHANGED trees
  /\ Ends(t, "worktree_failed")
  /\ Quiet /\ UNCHANGED <<pvars, content, head, prs>>

AddTree(t) ==
  /\ Goto(t, "add_tree", "branch")
  /\ stream[t] \notin trees
  /\ Tree(stream[t])
  /\ Quiet /\ UNCHANGED <<result, pvars, content, head, prs>>

CheckoutBranch(t) ==
  /\ Goto(t, "branch", "register")
  /\ Quiet /\ UNCHANGED <<result, pvars, gvars>>

(* add_session; a failed save is only logged. *)
Register(t) ==
  /\ Goto(t, "register", "dispatch")
  /\ LET r == Insert(mem, stream[t]) IN Saved(r) \/ SaveFails(r)
  /\ Quiet /\ UNCHANGED <<result, gvars>>
-----------------------------------------------------------------------------
(* The turn is dropped without an answer: the stream is being processed,   *)
(* or the set could not be locked within five seconds.                     *)
Skip(t) ==
  /\ Goto(t, "dispatch", "done")
  /\ Quiet /\ UNCHANGED <<result, pvars, gvars>>

Unguarded(t) == processing' = processing \cup {stream[t]}
TakeMark(t) ==
  /\ stream[t] \notin processing
  /\ processing' = processing \cup {stream[t]}

Dispatch(t) ==
  /\ Goto(t, "dispatch", "turn")
  /\ TakeMark(t)
  /\ UNCHANGED <<mvars, result, answer, leaked, pvars, gvars, crashes>>

(* A turn that returns an error at once, without clearing the mark. *)
EndTurnEarly(t, from, res) ==
  /\ Goto(t, from, IF res = "feedback" THEN "reply" ELSE "release")
  /\ Ends(t, res)
  /\ Quiet

(* A turn that ends: the mark is cleared after it, whatever it returns.    *)
EndTurn(t, from, res) == Goto(t, from, "release") /\ Ends(t, res) /\ Quiet

(* Parsing or applying fails.  The operations applied before the failing   *)
(* one are rolled back, as far as the files can be written.  Of these      *)
(* errors only a path that leaves the worktree is not reported.            *)
Edit(s) == content' = [content EXCEPT ![s] = @ + 1]
MayEdit(s) == Edit(s) \/ UNCHANGED content

ApplyFails(t) ==
  /\ \E res \in {"feedback", "silent"} : EndTurn(t, "turn", res)
  /\ MayEdit(stream[t])
  /\ UNCHANGED <<pvars, trees, head, prs>>

(* The operations are applied and the first directive in the order         *)
(* approved, done, incomplete, commit decides how to go on.                *)
Apply(t) ==
  /\ \E next \in {"push", "review", "continue", "gate", "record_turn"} :
       Goto(t, "turn", next)
  /\ MayEdit(stream[t])
  /\ Quiet /\ UNCHANGED <<result, pvars, trees, head, prs>>

Continue(t) ==
  /\ EndTurn(t, "continue", "continue")
  /\ UNCHANGED <<pvars, gvars>>

(* done: the done gates, then the prompt for the self-review; git diff or  *)
(* git log may fail.                                                       *)
Review(t) ==
  /\ \E res \in {"self_review", "feedback", "silent"} : EndTurn(t, "review", res)
  /\ UNCHANGED <<pvars, gvars>>

(* No directive: the turn is counted, which is activity of the session,    *)
(* and the extension is not answered.                                      *)
RecordTurn(t) ==
  /\ EndTurn(t, "record_turn", "silent")
  /\ \/ /\ stream[t] \in Known(mem)
        /\ LET r == Touch(mem, stream[t]) IN Saved(r) \/ SaveFails(r)
     \/ stream[t] \notin Known(mem) /\ UNCHANGED pvars
  /\ UNCHANGED gvars
-----------------------------------------------------------------------------
(* commit: the engine runs the commit gates on the worktree. *)
Pass(t) == gated' = [gated EXCEPT ![t] = content[stream[t]]]

GatesPass(t) ==
  /\ Goto(t, "gate", "commit") \/ Goto(t, "regate", "commit")
  /\ Pass(t)
  /\ UNCHANGED <<stream, result, answer, processing, leaked, pvars, gvars, crashes>>

(* get_fix_round: nothing ever writes SessionState.fix_round. *)
FixRound(s) == 0
Verdict(s) == IF FixRound(s) + 1 > MaxFixRounds THEN "escalated" ELSE "feedback"

(* A gate fails, and so may cargo fmt after it, or a gate cannot be run. *)
GatesFail(t) ==
  /\ \E from \in {"gate", "regate"}, res \in {"feedback", Verdict(stream[t])} :
       EndTurn(t, from, res)
  /\ \/ pc[t] = "gate" /\ Edit(stream[t])
     \/ UNCHANGED content
  /\ UNCHANGED <<pvars, trees, head, prs>>

(* An engine that trusts the formatter and commits at once. *)
TrustFormatter(t) ==
  /\ Goto(t, "gate", "commit")
  /\ Edit(stream[t])
  /\ Quiet /\ UNCHANGED <<result, pvars, trees, head, prs>>

(* Only the format gate fails: cargo fmt rewrites the files and the gates  *)
(* run again.                                                              *)
FormatFix(t) ==
  /\ Goto(t, "gate", "regate")
  /\ Edit(stream[t])
  /\ Quiet /\ UNCHANGED <<result, pvars, trees, head, prs>>

(* git add -A and git commit.  When nothing changed git commit fails and   *)
(* says so on its standard output, where commit_all does not look.         *)
CommitAll(s) == head' = [head EXCEPT ![s] = content[s]]

Commit(t) ==
  /\ EndTurn(t, "commit", "committed")
  /\ content[stream[t]] # head[stream[t]]
  /\ CommitAll(stream[t])
  /\ UNCHANGED <<pvars, trees, content, prs>>

CommitFails(t) ==
  /\ EndTurn(t, "commit", "silent")
  /\ CommitAll(stream[t]) \/ UNCHANGED head
  /\ UNCHANGED <<pvars, trees, content, prs>>
-----------------------------------------------------------------------------
(* approved: push the branch, open the pull request, save its address.     *)
(* gh refuses a second pull request for the branch.                        *)
OpenPr(s) == prs' = prs \cup {s}

Push(t) ==
  /\ Goto(t, "push", "create_pr")
  /\ Quiet /\ UNCHANGED <<result, pvars, gvars>>

CreatePr(t) ==
  /\ Goto(t, "create_pr", "set_pr_url")
  /\ stream[t] \notin prs
  /\ OpenPr(stream[t])
  /\ Quiet /\ UNCHANGED <<result, pvars, trees, content, head>>

PublishFails(t) ==
  /\ \E from \in {"push", "create_pr"} : EndTurn(t, from, "silent")
  /\ \/ pc[t] = "create_pr" /\ OpenPr(stream[t])
     \/ UNCHANGED prs
  /\ UNCHANGED <<pvars, trees, content, head>>

WithPr(s) == [mem EXCEPT !.pr = @ \cup {s}]

(* A set_pr_url that answers before the file is written. *)
LazySetPrUrl(t) ==
  /\ stream[t] \in Known(mem)
  /\ SaveFails(WithPr(stream[t]))
  /\ EndTurn(t, "set_pr_url", "complete")
  /\ UNCHANGED gvars

SetPrUrl(t) ==
  /\ stream[t] \in Known(mem)
  /\ Saved(WithPr(stream[t]))
  /\ EndTurn(t, "set_pr_url", "complete")
  /\ UNCHANGED gvars

(* The save fails, or the session is gone. *)
SetPrUrlFails(t) ==
  /\ EndTurn(t, "set_pr_url", "silent")
  /\ IF stream[t] \in Known(mem) THEN SaveFails(WithPr(stream[t]))
                                 ELSE UNCHANGED pvars
  /\ UNCHANGED gvars
-----------------------------------------------------------------------------
Release(t) ==
  /\ Goto(t, "release", "reply")
  /\ processing' = processing \ {stream[t]}
  /\ UNCHANGED <<mvars, result, answer, leaked, pvars, gvars, crashes>>

(* The set could not be locked within five seconds: "This is a race, but   *)
(* fine."  The stream stays marked for the life of the server.             *)
ReleaseTimesOut(t) ==
  /\ Goto(t, "release", "reply")
  /\ leaked' = leaked \cup {stream[t]}
  /\ UNCHANGED <<mvars, result, answer, processing, pvars, gvars, crashes>>

Reply(t) ==
  /\ Goto(t, "reply", "done")
  /\ answer' = [answer EXCEPT ![t] = result[t]]
  /\ UNCHANGED <<mvars, result, processing, leaked, pvars, gvars, crashes>>

(* POST /session/{id}/merge. *)
MarkMerged(s) ==
  /\ s \in Known(mem)
  /\ LET r == [mem EXCEPT !.merged = @ \cup {s}] IN Saved(r) \/ SaveFails(r)
  /\ Quiet /\ UNCHANGED <<pc, result, gvars>>

(* The server is killed and started again: tasks, marks and everything     *)
(* that was not saved are gone.                                            *)
Restart ==
  /\ crashes < MaxCrashes
  /\ crashes' = crashes + 1
  /\ pc' = [t \in Turns |-> IF pc[t] \in {"unsent", "done"} THEN pc[t] ELSE "lost"]
  /\ processing' = {} /\ leaked' = {}
  /\ mem' = disk
  /\ UNCHANGED <<mvars, result, answer, disk, gvars>>

Task(t) ==
  \/ Lookup(t) \/ CreateFails(t) \/ AddTree(t) \/ CheckoutBranch(t)
  \/ Register(t) \/ Skip(t) \/ Dispatch(t)
  \/ ApplyFails(t) \/ Apply(t) \/ Continue(t) \/ Review(t) \/ RecordTurn(t)
  \/ GatesPass(t) \/ GatesFail(t) \/ FormatFix(t) \/ Commit(t) \/ CommitFails(t)
  \/ Push(t) \/ CreatePr(t) \/ PublishFails(t) \/ SetPrUrl(t) \/ SetPrUrlFails(t)
  \/ Release(t) \/ ReleaseTimesOut(t) \/ Reply(t)

Next ==
  \/ \E t \in Turns : Arrive(t) \/ Task(t)
  \/ \E s \in Streams : MarkMerged(s)
  \/ Restart

Spec == Init /\ [][Next]_vars
-----------------------------------------------------------------------------
InTurn == {"turn", "review", "continue", "gate", "regate", "commit", "push",
           "create_pr", "set_pr_url", "record_turn", "release"}

Pcs == InTurn \cup {"unsent", "lookup", "add_tree", "branch", "register",
                    "dispatch", "reply", "done", "lost"}

Results == {"none", "worktree_failed", "feedback", "continue", "self_review",
            "committed", "escalated", "complete", "silent"}

TypeOK ==
  /\ stream \in [Turns -> Streams]
  /\ pc \in [Turns -> Pcs]
  /\ result \in [Turns -> Results]
  /\ answer \in [Turns -> Results]
  /\ gated \in [Turns -> Nat]
  /\ processing \subseteq Streams
  /\ leaked \subseteq Streams
  /\ trees \subseteq Streams
  /\ content \in [Streams -> Nat]
  /\ head \in [Streams -> Nat]
  /\ prs \subseteq Streams
  /\ crashes \in Nat

(* At most one turn of a stream runs at a time, and the stream is marked   *)
(* exactly while it does: the mark is given back on every error path of    *)
(* the turn, except when the set could not be locked to clear it.          *)
GuardExact ==
  /\ \A t, u \in Turns : pc[t] \in InTurn /\ pc[u] \in InTurn
                           /\ stream[t] = stream[u] => t = u
  /\ processing = leaked \cup {stream[t] : t \in {u \in Turns : pc[u] \in InTurn}}

(* What a turn commits is what its gates have passed: no other turn of the *)
(* stream, and no formatter, has touched the files since ("If any commit   *)
(* gate fails, the system shall NOT commit").                              *)
OnlyGatedCommits ==
  [][\A s \in Streams : head'[s] # head[s] =>
       \E t \in Turns : /\ stream[t] = s
                        /\ pc[t] = "commit"
                        /\ head'[s] = gated[t]]_vars

(* Once the extension was told that a stream is complete, its              *)
(* pull request is open, and the record of it outlives a crash for as long *)
(* as the session is kept.                                                 *)
CompleteIsDurable ==
  \A t \in Turns : answer[t] = "complete" =>
    /\ stream[t] \in prs
    /\ stream[t] \in Known(disk) => stream[t] \in disk.pr
=============================================================================
