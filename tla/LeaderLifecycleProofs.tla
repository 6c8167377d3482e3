----------------------- MODULE LeaderLifecycleProofs -----------------------
(***************************************************************************)
(* Why no axdt command loses commits it saw, destroys a session that is    *)
(* not its own, or serves a hub without its hook.  The invariant says of   *)
(* every call what its list of steps can be, and what it knows of its task *)
(* when it has come to each step; what docker, the Leaders, the daemon and *)
(* the other calls do meanwhile never takes that away (Drift).             *)
(***************************************************************************)
EXTENDS LeaderLifecycle, TLAPS

HubSteps == {"populated", "create", "open_hook", "write_hook", "chmod_hook", "configure_hub",
             "port", "spawn", "write_pid", "ready"}
ProvisionSteps == HubSteps \cup {"exists", "clone", "configure"}
StopSteps == {"kill_window", "docker_stop", "docker_rm"}
RemovalSteps == {"there", "fetch", "count", "remove"}
DaemonSteps == {"windows", "kill_daemon", "unlink_pid"}
StartSteps == {"look", "ensure", "new_window", "capture"}

StepName == ProvisionSteps \cup StopSteps \cup RemovalSteps \cup DaemonSteps \cup StartSteps
            \cup {"compensate"}

\* The steps a command may have left.
Own == [none |-> {},
        workspace_create |-> ProvisionSteps \cup {"fetch", "count", "remove"},
        workspace_rm |-> RemovalSteps,
        leader_up |-> ProvisionSteps \cup StartSteps \cup StopSteps \cup {"compensate"},
        leader_down |-> StopSteps \cup RemovalSteps,
        container_stop |-> {"docker_stop"}, container_rm |-> {"docker_rm"},
        hub_init |-> HubSteps, hub_serve |-> HubSteps, hub_stop_daemon |-> DaemonSteps]

\* Which step may stand behind which.
Follows(x, y) ==
    \/ x = "exists" /\ y = "populated"
    \/ x = "populated" /\ y = "create"
    \/ x = "create" /\ y = "open_hook"
    \/ x = "open_hook" /\ y = "write_hook"
    \/ x = "write_hook" /\ y = "chmod_hook"
    \/ x = "chmod_hook" /\ y = "configure_hub"
    \/ x = "configure_hub" /\ y \in {"open_hook", "port"}
    \/ x = "port" /\ y = "spawn"
    \/ x = "spawn" /\ y = "write_pid"
    \/ x = "write_pid" /\ y = "ready"
    \/ x = "ready" /\ y \in {"clone", "ensure"}
    \/ x = "clone" /\ y = "configure"
    \/ x = "configure" /\ y = "look"
    \/ x = "look" /\ y = "open_hook"
    \/ x = "ensure" /\ y = "new_window"
    \/ x = "new_window" /\ y = "capture"
    \/ x = "kill_window" /\ y = "docker_stop"
    \/ x = "docker_stop" /\ y = "docker_rm"
    \/ x = "docker_rm" /\ y \in {"there", "compensate"}
    \/ x = "there" /\ y = "fetch"
    \/ x = "fetch" /\ y = "count"
    \/ x = "count" /\ y = "remove"
    \/ x = "remove" /\ y = "populated"
    \/ x = "windows" /\ y = "kill_daemon"
    \/ x = "kill_daemon" /\ y = "unlink_pid"

\* What is left of any list of steps is linked too: every early return lands
\* behind the procedure it returns from, and a checkout is configured once.
Linked(s) ==
    /\ s \in Seq(StepName)
    /\ \A i \in 1..(Len(s) - 1) : Follows(s[i], s[i + 1])
    /\ \A i \in 1..Len(s) : s[i] = "populated" /\ i + 6 <= Len(s) => s[i + 6] = "open_hook"
    /\ \A i, j \in 1..Len(s) : s[i] = "configure" /\ s[j] = "configure" => i = j
    /\ \A i \in 1..Len(s) : s[i] = "kill_daemon" => i < Len(s)

Cleanup == StopSession \o <<"compensate">>

Calls == [cmd : DOMAIN Own, task : Task \cup {None}, force : BOOLEAN, seed : BOOLEAN,
          rescue : {<<>>, <<"compensate">>, Cleanup}, seen : SUBSET Commit,
          misread : BOOLEAN, opened : BOOLEAN, unclosed : BOOLEAN, failed : BOOLEAN, mine : {"none", "daemon", "other"}]

Pending(c, step) == \E i \in 1..Len(todo[c]) : todo[c][i] = step

\* The list fits the command.  An except clause is that of leader.up: the
\* inner try is entered at its look, and start's at its first tmux command.
Lawful(c) ==
    /\ Linked(todo[c])
    /\ \A i \in 1..Len(todo[c]) : todo[c][i] \in Own[call[c].cmd]
    /\ ~Idle(c) => (call[c].cmd \in HubCommand <=> call[c].task = None)
    /\ call[c].force => call[c].cmd \in Forcible
    /\ call[c].rescue # <<>> => call[c].cmd = "leader_up" /\ ~At(c, "exists")
    /\ At(c, "new_window") \/ At(c, "capture") => call[c].rescue = Cleanup
    /\ Pending(c, "ensure") /\ ~Pending(c, "look") => call[c].rescue # <<>>

\* The gate is installed before the daemon is spawned.
HookFirst(c) == At(c, "configure_hub") \/ At(c, "port") \/ At(c, "spawn") => hook.exec

Blank(t) == ws[t] = None \/ ws[t].branch = None

\* What a call knows of the working copy: a checkout finds no task branch to
\* overwrite, and a removal has seen nothing that the hub does not have.
CopyKnown(c) ==
    LET t == call[c].task IN
    /\ At(c, "fetch") \/ At(c, "count") => ws[t] # None
    /\ Pending(c, "configure") /\ ~(Head(todo[c]) \in {"exists", "fetch", "count", "remove"})
         => Blank(t)
    /\ At(c, "exists") => call[c].seen \subseteq Commits(t)
    /\ call[c].cmd = "leader_up" /\ ~At(c, "exists") => call[c].seen = {}
    /\ At(c, "remove") => call[c].seen \subseteq PushedTo(t)

\* A look that was shown what is there knows that nothing is, until the call
\* opens its window.
Knows(k, t) == k.opened \/ k.misread \/ NothingThere(t)

AfterStop == {"there", "fetch", "count", "remove", "compensate"}

\* What a stop has left, but for what tmux or docker would not remove.
Closed(k, t) == window[t] = "none" \/ k.unclosed
Removed(k, t) == container[t] = "none" \/ k.failed \/ k.unclosed

\* What it knows of the session.
SessionKnown(c) ==
    LET t == call[c].task IN
    /\ call[c].cmd = "leader_up" /\ (call[c].rescue # <<>> \/ Head(todo[c]) \in StopSteps)
         => Knows(call[c], t)
    /\ call[c].opened => /\ call[c].cmd = "leader_up"
                         /\ Head(todo[c]) \in StopSteps \cup {"capture", "compensate"}
    /\ call[c].cmd = "leader_down" \/ call[c].opened =>
         /\ Head(todo[c]) \in AfterStop \cup {"docker_stop", "docker_rm"} => Closed(call[c], t)
         /\ Head(todo[c]) \in AfterStop => Removed(call[c], t)

Stage(c) == Lawful(c) /\ HookFirst(c) /\ (~Idle(c) => CopyKnown(c) /\ SessionKnown(c))

\* A task's commands do not overlap.
OneCommand ==
    \A c, d \in Caller :
        ~Idle(c) /\ ~Idle(d) /\ call[c].task = call[d].task /\ call[c].task \in Task => c = d

\* A Leader runs in its working copy, and hub/<branch> is what the hub had.
CopiesHold ==
    \A t \in Task :
        /\ container[t] = "running" => ws[t] # None
        /\ ws[t] # None /\ ws[t].hubRef # None => ws[t].hubRef \subseteq PushedTo(t)

IInv ==
    /\ TypeOK /\ call \in [Caller -> Calls]
    /\ OneCommand /\ CopiesHold
    /\ daemon => hook.exec
    /\ \A c \in Caller : Stage(c)

----------------------------------------------------------------------------
\* Lists of steps.

\* What is left after a step is linked, and its head may follow that step.
LEMMA ListTail ==
    ASSUME NEW s, Linked(s), s # <<>>
    PROVE  /\ Linked(Tail(s)) /\ Len(Tail(s)) = Len(s) - 1 /\ Len(s) \in Nat \ {0}
           /\ \A i \in 1..Len(Tail(s)) : Tail(s)[i] = s[i + 1]
           /\ Head(s) = s[1] /\ Head(s) \in StepName
           /\ Tail(s) # <<>> => Head(Tail(s)) = s[2] /\ Follows(Head(s), Head(Tail(s)))
           /\ Head(s) = "configure" => \A i \in 1..Len(Tail(s)) : Tail(s)[i] # "configure"
           /\ Head(s) = "kill_daemon" => Tail(s) # <<>>
<1> DEFINE u == Tail(s)
<1>1. /\ s \in Seq(StepName) /\ u \in Seq(StepName) /\ Len(u) = Len(s) - 1 /\ Len(s) \in Nat \ {0}
      /\ \A i \in 1..Len(u) : u[i] = s[i + 1]
      /\ Head(s) = s[1] /\ Head(s) \in StepName
      /\ u # <<>> <=> Len(u) > 0
      /\ u # <<>> => Head(u) = u[1]
  <2>1. s \in Seq(StepName) /\ Len(s) \in Nat \ {0} /\ Head(s) = s[1]
    BY DEF Linked
  <2>2. u \in Seq(StepName) /\ Len(u) = Len(s) - 1 /\ \A i \in 1..Len(u) : u[i] = s[i + 1]
    BY <2>1
  <2> HIDE DEF u
  <2>3. (u # <<>> <=> Len(u) > 0) /\ (u # <<>> => Head(u) = u[1])
    BY <2>2
  <2> QED
    BY <2>1, <2>2, <2>3
<1> HIDE DEF u
<1>2. Linked(u)
  <2>1. \A i \in 1..(Len(u) - 1) : Follows(u[i], u[i + 1])
    <3>1. \A i \in 1..(Len(s) - 1) : Follows(s[i], s[i + 1])
      BY DEF Linked
    <3> QED
      BY <1>1, <3>1
  <2>2. \A i \in 1..Len(u) : u[i] = "populated" /\ i + 6 <= Len(u) => u[i + 6] = "open_hook"
    <3>1. \A i \in 1..Len(s) : s[i] = "populated" /\ i + 6 <= Len(s) => s[i + 6] = "open_hook"
      BY DEF Linked
    <3> QED
      BY <1>1, <3>1
  <2>3. \A i, j \in 1..Len(u) : u[i] = "configure" /\ u[j] = "configure" => i = j
    <3>1. \A i, j \in 1..Len(s) : s[i] = "configure" /\ s[j] = "configure" => i = j
      BY DEF Linked
    <3> QED
      BY <1>1, <3>1
  <2>4. \A i \in 1..Len(u) : u[i] = "kill_daemon" => i < Len(u)
    <3>1. \A i \in 1..Len(s) : s[i] = "kill_daemon" => i < Len(s)
      BY DEF Linked
    <3> QED
      BY <1>1, <3>1
  <2> QED
    BY <1>1, <2>1, <2>2, <2>3, <2>4 DEF Linked
<1>3. u # <<>> => Head(u) = s[2] /\ Follows(Head(s), Head(u))
    BY <1>1 DEF Linked
<1>4. Head(s) = "configure" => \A i \in 1..Len(u) : u[i] # "configure"
    BY <1>1 DEF Linked
<1>5. Head(s) = "kill_daemon" => u # <<>>
    BY <1>1 DEF Linked
<1> QED
    BY <1>1, <1>2, <1>3, <1>4, <1>5 DEF u

\* What an early return over n steps leaves.
Rest(s, n) == SubSeq(s, n + 2, Len(s))

\* So is what is left after an early return.
LEMMA ListSkip ==
    ASSUME NEW s, Linked(s), s # <<>>, NEW n \in Nat, NEW u, u = Rest(s, n)
    PROVE  /\ Linked(u)
           /\ \A i \in 1..Len(u) : i + n + 1 <= Len(s) /\ u[i] = s[i + n + 1]
           /\ u # <<>> => Len(s) >= n + 2 /\ Head(u) = s[n + 2]
           /\ \A j \in 1..Len(s) : j > n + 1 => j - n - 1 \in 1..Len(u) /\ u[j - n - 1] = s[j]
BY DEF Linked, Rest

\* Where the early returns land.
LEMMA SkipLands ==
    ASSUME NEW s, Linked(s), s # <<>>
    PROVE  /\ Head(s) = "populated" /\ Len(s) >= 7 => s[7] = "open_hook"
           /\ Head(s) = "port" /\ Len(s) >= 5 => s[5] \in {"clone", "ensure"}
           /\ Head(s) = "there" /\ Len(s) >= 5 => s[5] = "populated"
           /\ Head(s) = "kill_daemon" => Len(s) < 3
           /\ \A j \in 1..Len(s) :
                \/ Head(s) = "populated" /\ j <= 6
                \/ Head(s) = "port" /\ j <= 4
                \/ Head(s) = "kill_daemon"
                => s[j] # "look"
<1>1. Len(s) \in Nat /\ Head(s) = s[1] /\ \A i \in 1..(Len(s) - 1) : Follows(s[i], s[i + 1])
    BY DEF Linked
<1>2. Head(s) = "populated" /\ Len(s) >= 7 => s[7] = "open_hook"
    BY <1>1 DEF Linked
<1>3. ASSUME Len(s) >= 5
      PROVE  Follows(s[1], s[2]) /\ Follows(s[2], s[3]) /\ Follows(s[3], s[4]) /\ Follows(s[4], s[5])
  <2>1. 1 \in 1..(Len(s) - 1) /\ 2 \in 1..(Len(s) - 1) /\ 3 \in 1..(Len(s) - 1) /\ 4 \in 1..(Len(s) - 1)
    BY <1>1, <1>3
  <2> QED
    BY <1>1, <2>1
<1>4. Head(s) = "port" /\ Len(s) >= 5 => s[5] \in {"clone", "ensure"}
    BY <1>1, <1>3 DEF Follows
<1>5. Head(s) = "there" /\ Len(s) >= 5 => s[5] = "populated"
    BY <1>1, <1>3 DEF Follows
<1>6. Head(s) = "kill_daemon" => Len(s) < 3
    BY <1>1 DEF Follows
<1>7. ASSUME NEW j \in 1..Len(s)
      PROVE  /\ Head(s) = "populated" /\ j <= 6 => s[j] # "look"
             /\ Head(s) = "port" /\ j <= 4 => s[j] # "look"
             /\ Head(s) = "kill_daemon" => s[j] # "look"
  <2>1. \A i \in 1..Len(s) : i < Len(s) => Follows(s[i], s[i + 1])
    BY <1>1
  <2>2. \A i \in 1..5 : j > i => i \in 1..Len(s) /\ i < Len(s)
    BY <1>1
  <2>3. /\ j > 1 => Follows(s[1], s[2])
        /\ j > 2 => Follows(s[2], s[3])
        /\ j > 3 => Follows(s[3], s[4])
        /\ j > 4 => Follows(s[4], s[5])
        /\ j > 5 => Follows(s[5], s[6])
    BY <2>1, <2>2
  <2>4. j = 1 \/ j = 2 \/ j = 3 \/ j = 4 \/ j = 5 \/ j = 6 \/ j > 6
    BY <1>1
  <2>5. CASE Head(s) = "populated"
    BY <1>1, <2>3, <2>4, <2>5 DEF Follows
  <2>6. CASE Head(s) = "port"
    BY <1>1, <2>3, <2>4, <2>6 DEF Follows
  <2>7. CASE Head(s) = "kill_daemon"
    BY <1>1, <1>6, <2>3, <2>4, <2>7 DEF Follows
  <2> QED
    BY <2>5, <2>6, <2>7
<1> QED
    BY <1>2, <1>4, <1>5, <1>6, <1>7

\* The except clauses, and the removal of a forced teardown.
LEMMA ShortLists ==
    /\ Linked(<<>>) /\ Linked(<<"remove">>)
    /\ Linked(<<"compensate">>) /\ <<"compensate">> # <<>> /\ Head(<<"compensate">>) = "compensate"
    /\ Linked(Cleanup) /\ Cleanup # <<>> /\ Head(Cleanup) = "kill_window"
    /\ Cleanup # <<"compensate">>
    /\ \A i \in 1..Len(<<"compensate">>) : <<"compensate">>[i] = "compensate"
    /\ \A i \in 1..Len(Cleanup) : Cleanup[i] \in StopSteps \cup {"compensate"}
    /\ \A i \in 1..Len(<<"remove">>) : <<"remove">>[i] = "remove"
BY DEF Linked, Follows, StepName, RemovalSteps, StopSteps, Cleanup, StopSession

\* The removal of a forced provision, element by element.
LEMMA RemovalThen ==
    ASSUME NEW q \in Seq(StepName), NEW u, u = Tail(Teardown) \o q
    PROVE  /\ u \in Seq(StepName) /\ Len(u) = 3 + Len(q)
           /\ u[1] = "fetch" /\ u[2] = "count" /\ u[3] = "remove"
           /\ \A k \in 1..Len(q) : u[3 + k] = q[k]
           /\ \A i \in 4..Len(u) : i - 3 \in 1..Len(q) /\ u[i] = q[i - 3]
BY DEF Teardown, StepName, RemovalSteps

\* A removal put before a linked rest of a provision is linked.
LEMMA ShiftedLinked ==
    ASSUME NEW q, Linked(q), q # <<>> => q[1] = "populated",
           NEW u \in Seq(StepName), Len(u) = 3 + Len(q),
           u[1] = "fetch", u[2] = "count", u[3] = "remove",
           \A k \in 1..Len(q) : u[3 + k] = q[k],
           \A i \in 4..Len(u) : i - 3 \in 1..Len(q) /\ u[i] = q[i - 3]
    PROVE  /\ Linked(u) /\ u # <<>> /\ Head(u) = "fetch"
           /\ \A i \in 1..Len(u) : u[i] \in {"fetch", "count", "remove"} \/ \E k \in 1..Len(q) : u[i] = q[k]
<1>1. /\ q \in Seq(StepName) /\ Len(q) \in Nat
      /\ Len(q) >= 1 => q[1] = "populated"
    BY DEF Linked
<1>2. /\ u \in Seq(StepName) /\ Len(u) = 3 + Len(q)
      /\ u[1] = "fetch" /\ u[2] = "count" /\ u[3] = "remove"
      /\ \A k \in 1..Len(q) : u[3 + k] = q[k]
      /\ \A i \in 4..Len(u) : i - 3 \in 1..Len(q) /\ u[i] = q[i - 3]
    OBVIOUS
<1>3. ASSUME NEW i \in 1..Len(u)
      PROVE  \/ i = 1 /\ u[i] = "fetch"
             \/ i = 2 /\ u[i] = "count"
             \/ i = 3 /\ u[i] = "remove"
             \/ \E k \in 1..Len(q) : i = 3 + k /\ u[i] = q[k]
  <2>1. ASSUME i > 3
        PROVE  \E k \in 1..Len(q) : i = 3 + k /\ u[i] = q[k]
    <3>1. i - 3 \in 1..Len(q) /\ i = 3 + (i - 3) /\ u[i] = q[i - 3]
      BY <2>1, <1>1, <1>2
    <3> QED
      BY <3>1
  <2>2. i > 3 \/ i = 1 \/ i = 2 \/ i = 3
    BY <1>1, <1>2
  <2> QED
    BY <2>1, <2>2, <1>2
<1>4. ASSUME NEW i \in 1..(Len(u) - 1)
      PROVE  Follows(u[i], u[i + 1])
  <2>1. i \in 1..Len(u)
    BY <1>2
  <2>2. CASE i <= 3
    BY <2>1, <2>2, <1>1, <1>2 DEF Follows
  <2>3. CASE i > 3
    <3>1. PICK k \in 1..Len(q) : i = 3 + k /\ u[i] = q[k]
      BY <2>1, <2>3, <1>3
    <3>2. k \in 1..(Len(q) - 1) /\ k + 1 \in 1..Len(q) /\ i + 1 = 3 + (k + 1)
      BY <3>1, <1>2
    <3>3. Follows(q[k], q[k + 1])
      BY <3>2, <1>1 DEF Linked
    <3>4. u[i + 1] = q[k + 1]
      BY <3>2, <1>2
    <3> QED
      BY <3>1, <3>3, <3>4
  <2> QED
    BY <2>1, <2>2, <2>3, <1>2
<1>5. ASSUME NEW i \in 1..Len(u), u[i] = "populated", i + 6 <= Len(u)
      PROVE  u[i + 6] = "open_hook"
  <2>1. PICK k \in 1..Len(q) : i = 3 + k /\ u[i] = q[k]
    BY <1>3, <1>5
  <2>2. k + 6 \in 1..Len(q) /\ i + 6 = 3 + (k + 6)
    BY <2>1, <1>2, <1>5
  <2>3. q[k + 6] = "open_hook"
    BY <2>1, <2>2, <1>1, <1>2, <1>5 DEF Linked
  <2> QED
    BY <2>2, <2>3, <1>2
<1>6. ASSUME NEW i \in 1..Len(u), NEW j \in 1..Len(u), u[i] = "configure", u[j] = "configure"
      PROVE  i = j
  <2>1. PICK k \in 1..Len(q) : i = 3 + k /\ u[i] = q[k]
    BY <1>3, <1>6
  <2>2. PICK m \in 1..Len(q) : j = 3 + m /\ u[j] = q[m]
    BY <1>3, <1>6
  <2>3. k = m
    BY <2>1, <2>2, <1>1, <1>6 DEF Linked
  <2> QED
    BY <2>1, <2>2, <2>3
<1>7. u # <<>> /\ Head(u) = "fetch"
    BY <1>2
<1>8. ASSUME NEW i \in 1..Len(u), u[i] = "kill_daemon"
       PROVE  i < Len(u)
  <2>1. PICK k \in 1..Len(q) : i = 3 + k /\ u[i] = q[k]
    BY <1>3, <1>8
  <2>2. k < Len(q)
    BY <2>1, <1>8 DEF Linked
  <2> QED
    BY <2>1, <2>2, <1>1, <1>2
<1>9. \A i \in 1..Len(u) : u[i] \in {"fetch", "count", "remove"} \/ \E k \in 1..Len(q) : u[i] = q[k]
    BY <1>3
<1> QED
    BY <1>2, <1>4, <1>5, <1>6, <1>7, <1>9, <1>8 DEF Linked

\* What a forced provision does instead of its test.
Forced(s) == Tail(Teardown) \o Tail(s)

\* It is linked, and it has the steps of a removal and of the provision.
LEMMA ForcedList ==
    ASSUME NEW s, Linked(s), s # <<>>, Head(s) = "exists", NEW u, u = Forced(s)
    PROVE  /\ Linked(u) /\ u # <<>> /\ Head(u) = "fetch"
           /\ \A i \in 1..Len(u) : u[i] \in {"fetch", "count", "remove"} \/ \E j \in 1..Len(s) : u[i] = s[j]
<1> DEFINE q == Tail(s)
<1>1. u = Tail(Teardown) \o q
    BY DEF Forced
<1>2. /\ Linked(q) /\ q \in Seq(StepName) /\ Len(s) \in Nat /\ Len(q) = Len(s) - 1
      /\ \A i \in 1..Len(q) : q[i] = s[i + 1]
    BY ListTail DEF Linked
<1>3. q # <<>> => q[1] = "populated"
  <2>1. q # <<>> => Len(q) >= 1 /\ Follows("exists", s[2])
    BY <1>2, ListTail DEF Linked
  <2> QED
    BY <1>2, <2>1 DEF Follows
<1> HIDE DEF q
<1>4. /\ Linked(u) /\ u # <<>> /\ Head(u) = "fetch"
      /\ \A i \in 1..Len(u) :
            u[i] \in {"fetch", "count", "remove"} \/ \E k \in 1..Len(q) : u[i] = q[k]
  <2>1. /\ u \in Seq(StepName) /\ Len(u) = 3 + Len(q)
        /\ u[1] = "fetch" /\ u[2] = "count" /\ u[3] = "remove"
        /\ \A k \in 1..Len(q) : u[3 + k] = q[k]
        /\ \A i \in 4..Len(u) : i - 3 \in 1..Len(q) /\ u[i] = q[i - 3]
    BY <1>1, <1>2, RemovalThen
  <2> QED
    BY <2>1, <1>2, <1>3, ShiftedLinked
<1>5. \A k \in 1..Len(q) : k + 1 \in 1..Len(s) /\ q[k] = s[k + 1]
    BY <1>2
<1> QED
    BY <1>4, <1>5

\* The programs of the commands (cli.py) are linked: workspace create,
LEMMA ProvisionList ==
    /\ Linked(Provision) /\ Provision # <<>> /\ Head(Provision) = "exists"
    /\ \A i \in 1..Len(Provision) : Provision[i] \in ProvisionSteps
BY SMTT(60) DEF Linked, Follows, StepName, ProvisionSteps, HubSteps, Provision, InitHub, ServeHub, InstallGate

\* leader up,
LEMMA UpList ==
    /\ Linked(Up) /\ Up # <<>> /\ Head(Up) = "exists"
    /\ \A i \in 1..Len(Up) : Up[i] \in ProvisionSteps \cup StartSteps
    /\ \E i \in 1..Len(Up) : Up[i] = "look"
<1>1. Linked(Up) /\ Up # <<>> /\ Head(Up) = "exists"
    BY SMTT(60) DEF Linked, Follows, StepName, ProvisionSteps, StartSteps, HubSteps,
           Up, Provision, InitHub, ServeHub, InstallGate
<1>2. \A i \in 1..Len(Up) : Up[i] \in ProvisionSteps \cup StartSteps
    BY DEF ProvisionSteps, StartSteps, HubSteps, Up, Provision, InitHub, ServeHub, InstallGate
<1>3. 18 \in 1..Len(Up) /\ Up[18] = "look"
    BY DEF Up, Provision, InitHub, ServeHub, InstallGate
<1> QED
    BY <1>1, <1>2, <1>3

\* workspace rm and leader down,
LEMMA RemovalLists ==
    /\ Linked(Teardown) /\ Teardown # <<>> /\ Head(Teardown) = "there"
    /\ \A i \in 1..Len(Teardown) : Teardown[i] \in RemovalSteps
    /\ Linked(Down) /\ Down # <<>> /\ Head(Down) = "kill_window"
    /\ \A i \in 1..Len(Down) : Down[i] \in StopSteps \cup RemovalSteps
BY SMTT(60) DEF Linked, Follows, StepName, StopSteps, RemovalSteps, Down, Teardown, StopSession

\* hub init, serve and stop-daemon,
LEMMA HubLists ==
    /\ Linked(InitHub) /\ InitHub # <<>> /\ Head(InitHub) = "populated" /\ Len(InitHub) = 6
    /\ \A i \in 1..Len(InitHub) : InitHub[i] \in HubSteps
    /\ Linked(ServeHub) /\ ServeHub # <<>> /\ Head(ServeHub) = "open_hook"
    /\ \A i \in 1..Len(ServeHub) : ServeHub[i] \in HubSteps
    /\ Linked(StopDaemon) /\ StopDaemon # <<>> /\ Head(StopDaemon) = "windows"
    /\ \A i \in 1..Len(StopDaemon) : StopDaemon[i] \in DaemonSteps
BY DEF Linked, Follows, StepName, ProvisionSteps, HubSteps, DaemonSteps,
       InitHub, ServeHub, InstallGate, StopDaemon

\* container stop and rm.
LEMMA DockerLists ==
    \A x \in {"docker_stop", "docker_rm"} :
        /\ Linked(<<x>>) /\ <<x>> # <<>> /\ Head(<<x>>) = x
        /\ \A i \in 1..Len(<<x>>) : <<x>>[i] = x
BY DEF Linked, StepName, StopSteps

\* Every command starts with a linked list of its own steps.
LEMMA Programs ==
    ASSUME NEW cmd \in DOMAIN Steps
    PROVE  /\ Linked(Steps[cmd]) /\ Steps[cmd] # <<>>
           /\ \A i \in 1..Len(Steps[cmd]) : Steps[cmd][i] \in Own[cmd]
           /\ Head(Steps[cmd]) = IF cmd \in {"workspace_create", "leader_up"} THEN "exists"
                                 ELSE IF cmd = "workspace_rm" THEN "there"
                                 ELSE IF cmd = "leader_down" THEN "kill_window"
                                 ELSE IF cmd = "hub_init" THEN "populated"
                                 ELSE IF cmd = "hub_serve" THEN "open_hook"
                                 ELSE IF cmd = "hub_stop_daemon" THEN "windows"
                                 ELSE IF cmd = "container_stop" THEN "docker_stop" ELSE "docker_rm"
           /\ cmd \in DOMAIN Own /\ cmd # "none"
<1>1. CASE cmd = "workspace_create"
    BY <1>1, ProvisionList DEF Steps, Own
<1>2. CASE cmd = "leader_up"
    BY <1>2, UpList DEF Steps, Own
<1>3. CASE cmd \in {"workspace_rm", "leader_down"}
    BY <1>3, RemovalLists DEF Steps, Own
<1>4. CASE cmd \in {"hub_init", "hub_serve", "hub_stop_daemon"}
    BY <1>4, HubLists DEF Steps, Own
<1>5. CASE cmd \in {"container_stop", "container_rm"}
    BY <1>5, DockerLists DEF Steps, Own
<1> QED
    BY <1>1, <1>2, <1>3, <1>4, <1>5 DEF Steps

----------------------------------------------------------------------------
\* Moves of a call.

\* What a call has left after a step.
LEMMA TailMove ==
    ASSUME NEW c, Lawful(c), ~Idle(c)
    PROVE  LET s == todo[c]  u == Tail(todo[c]) IN
           /\ Linked(u) /\ \A i \in 1..Len(u) : u[i] \in Own[call[c].cmd] /\ \E j \in 1..Len(s) : u[i] = s[j]
           /\ Head(s) \in Own[call[c].cmd] /\ Head(s) \in StepName
           /\ u # <<>> => Follows(Head(s), Head(u)) /\ Head(u) \in Own[call[c].cmd]
           /\ Head(s) = "configure" => \A i \in 1..Len(u) : u[i] # "configure"
           /\ Head(s) = "kill_daemon" => u # <<>>
           /\ \A j \in 1..Len(s) : s[j] # Head(s) => \E i \in 1..Len(u) : u[i] = s[j]
<1> DEFINE s == todo[c]
           u == Tail(todo[c])
<1>1. Linked(s) /\ s # <<>> /\ \A i \in 1..Len(s) : s[i] \in Own[call[c].cmd]
    BY DEF Lawful, Idle
<1>2. /\ Linked(u) /\ Len(u) = Len(s) - 1 /\ Len(s) \in Nat \ {0}
      /\ \A i \in 1..Len(u) : u[i] = s[i + 1]
      /\ Head(s) = s[1] /\ Head(s) \in StepName
      /\ u # <<>> => Head(u) = s[2] /\ Follows(Head(s), Head(u))
      /\ Head(s) = "configure" => \A i \in 1..Len(u) : u[i] # "configure"
      /\ Head(s) = "kill_daemon" => u # <<>>
    BY <1>1, ListTail
<1>3. u # <<>> => Len(u) > 0
    BY <1>2 DEF Linked
<1> HIDE DEF s, u
<1>4. \A i \in 1..Len(u) : i + 1 \in 1..Len(s) /\ u[i] = s[i + 1]
    BY <1>2
<1>5. u # <<>> => Head(u) \in Own[call[c].cmd]
    BY <1>1, <1>2, <1>3
<1>6. ASSUME NEW j \in 1..Len(s), s[j] # Head(s)
      PROVE  \E i \in 1..Len(u) : u[i] = s[j]
  <2>1. j - 1 \in 1..Len(u) /\ u[j - 1] = s[j]
    BY <1>2, <1>6
  <2> QED
    BY <2>1
<1> QED
    BY <1>1, <1>2, <1>4, <1>5, <1>6 DEF s, u

\* Which commands have which steps, and which have a task.
LEMMA WhoseStep ==
    ASSUME NEW c, call[c] \in Calls, Lawful(c), ~Idle(c), NEW h, h = Head(todo[c])
    PROVE  /\ call[c].cmd # "none" /\ h \in Own[call[c].cmd]
           /\ h \in StepName \ (HubSteps \cup DaemonSteps) => call[c].task \in Task
           /\ call[c].cmd \notin HubCommand => call[c].task \in Task
           /\ h \in HubSteps => call[c].cmd \in {"workspace_create", "leader_up", "hub_init", "hub_serve"}
           /\ h \in DaemonSteps => call[c].cmd = "hub_stop_daemon"
           /\ h \in {"exists", "clone", "configure"} => call[c].cmd \in {"workspace_create", "leader_up"}
           /\ h \in StartSteps \cup {"compensate"} => call[c].cmd = "leader_up"
           /\ h = "there" => call[c].cmd \in {"workspace_rm", "leader_down"}
           /\ h \in {"fetch", "count", "remove"}
                => call[c].cmd \in {"workspace_create", "workspace_rm", "leader_down"}
           /\ h = "kill_window" => call[c].cmd \in {"leader_up", "leader_down"}
<1>1. h \in Own[call[c].cmd]
    BY TailMove
<1>2. call[c].cmd \in DOMAIN Own /\ call[c].task \in Task \cup {None}
    BY DEF Calls
<1>3. call[c].cmd \in HubCommand <=> call[c].task = None
    BY DEF Lawful
<1> QED
    BY <1>1, <1>2, <1>3 DEF Own, HubCommand, StepName, ProvisionSteps, HubSteps, StartSteps, StopSteps,
                            RemovalSteps, DaemonSteps

\* What a call has left after an early return.
LEMMA SkipMove ==
    ASSUME NEW c, call[c] \in Calls, Lawful(c), ~Idle(c), NEW n \in Nat,
           NEW u, u = Rest(todo[c], n)
    PROVE  LET s == todo[c] IN
           /\ Linked(u) /\ \A i \in 1..Len(u) : u[i] \in Own[call[c].cmd] /\ \E j \in 1..Len(s) : u[i] = s[j]
           /\ u # <<>> /\ Head(s) = "populated" /\ n = 5 => Head(u) = "open_hook"
           /\ u # <<>> /\ Head(s) = "port" /\ n = 3 => Head(u) \in {"clone", "ensure"}
           /\ Head(s) = "there" /\ n = 3 => u = <<>>
           /\ Head(s) = "kill_daemon" /\ n = 1 => u = <<>>
           /\ \/ Head(s) = "populated" /\ n = 5
              \/ Head(s) = "port" /\ n = 3
              \/ Head(s) = "kill_daemon" /\ n = 1
              => \A j \in 1..Len(s) : s[j] = "look" => \E i \in 1..Len(u) : u[i] = s[j]
<1> DEFINE s == todo[c]
<1>1. u = Rest(s, n)
    OBVIOUS
<1>2. Linked(s) /\ s # <<>> /\ \A i \in 1..Len(s) : s[i] \in Own[call[c].cmd]
    BY DEF Lawful, Idle
<1>3. /\ Linked(u) /\ Len(s) \in Nat \ {0}
      /\ \A i \in 1..Len(u) : i + n + 1 <= Len(s) /\ u[i] = s[i + n + 1]
      /\ u # <<>> => Len(s) >= n + 2 /\ Head(u) = s[n + 2]
      /\ \A j \in 1..Len(s) : j > n + 1 => j - n - 1 \in 1..Len(u) /\ u[j - n - 1] = s[j]
  <2> HIDE DEF s
  <2>1. Len(s) \in Nat \ {0}
    BY <1>2, ListTail
  <2>2. Linked(u)
    BY <1>1, <1>2, ListSkip
  <2>3. \A i \in 1..Len(u) : i + n + 1 <= Len(s) /\ u[i] = s[i + n + 1]
    BY <1>1, <1>2, ListSkip
  <2>4. u # <<>> => Len(s) >= n + 2 /\ Head(u) = s[n + 2]
    BY <1>1, <1>2, ListSkip
  <2>5. \A j \in 1..Len(s) : j > n + 1 => j - n - 1 \in 1..Len(u) /\ u[j - n - 1] = s[j]
    BY <1>1, <1>2, ListSkip
  <2> QED
    BY <2>1, <2>2, <2>3, <2>4, <2>5
<1>4. /\ Head(s) = "populated" /\ Len(s) >= 7 => s[7] = "open_hook"
      /\ Head(s) = "port" /\ Len(s) >= 5 => s[5] \in {"clone", "ensure"}
      /\ Head(s) = "there" /\ Len(s) >= 5 => s[5] = "populated"
      /\ Head(s) = "kill_daemon" => Len(s) < 3
      /\ \A j \in 1..Len(s) :
           \/ Head(s) = "populated" /\ j <= 6
           \/ Head(s) = "port" /\ j <= 4
           \/ Head(s) = "kill_daemon"
           => s[j] # "look"
    BY <1>2, SkipLands
<1>5. Head(s) = s[1]
    BY <1>2, ListTail
<1>6. Head(s) = "there" => call[c].cmd \in {"workspace_rm", "leader_down"}
    BY WhoseStep
<1> HIDE DEF s
<1>7. \A i \in 1..Len(u) : i + n + 1 \in 1..Len(s)
    BY <1>3 DEF Linked
<1>8. Head(s) = "there" /\ n = 3 => u = <<>>
  <2>1. "populated" \notin Own["workspace_rm"] /\ "populated" \notin Own["leader_down"]
    BY DEF Own, RemovalSteps, StopSteps
  <2> QED
    BY <1>2, <1>3, <1>4, <1>6, <2>1
<1>9. ASSUME \/ Head(s) = "populated" /\ n = 5
             \/ Head(s) = "port" /\ n = 3
             \/ Head(s) = "kill_daemon" /\ n = 1,
             NEW j \in 1..Len(s), s[j] = "look"
      PROVE  \E i \in 1..Len(u) : u[i] = s[j]
  <2>1. j > n + 1
    BY <1>4, <1>9
  <2> QED
    BY <1>3, <2>1
<1>10. \A i \in 1..Len(u) : u[i] \in Own[call[c].cmd] /\ \E j \in 1..Len(s) : u[i] = s[j]
    BY <1>2, <1>3, <1>7
<1>11. /\ u # <<>> /\ Head(s) = "populated" /\ n = 5 => Head(u) = "open_hook"
       /\ u # <<>> /\ Head(s) = "port" /\ n = 3 => Head(u) \in {"clone", "ensure"}
       /\ Head(s) = "kill_daemon" /\ n = 1 => u = <<>>
    BY <1>3, <1>4
<1>12. Linked(u)
    BY <1>3
<1> QED
    BY <1>8, <1>9, <1>10, <1>11, <1>12 DEF s

\* What it has left after a step that raises.
LEMMA RaiseMove ==
    ASSUME NEW c, call[c] \in Calls, Lawful(c), NEW u, u = call[c].rescue
    PROVE  /\ Linked(u)
           /\ \A i \in 1..Len(u) : u[i] \in Own[call[c].cmd] /\ u[i] \in StopSteps \cup {"compensate"}
           /\ u # <<>> => /\ call[c].cmd = "leader_up"
                          /\ Head(u) = IF u = Cleanup THEN "kill_window" ELSE "compensate"
<1>1. u \in {<<>>, <<"compensate">>, Cleanup} /\ (u # <<>> => call[c].cmd = "leader_up")
    BY DEF Calls, Lawful
<1>2. /\ Linked(u) /\ \A i \in 1..Len(u) : u[i] \in StopSteps \cup {"compensate"}
      /\ u # <<>> => Head(u) = IF u = Cleanup THEN "kill_window" ELSE "compensate"
  <2>1. \A i \in 1..Len(<<>>) : FALSE
    OBVIOUS
  <2> QED
    BY <1>1, <2>1, ShortLists
<1>3. StopSteps \cup {"compensate"} \subseteq Own["leader_up"]
    BY DEF Own
<1>4. u = <<>> => \A i \in 1..Len(u) : FALSE
    OBVIOUS
<1> QED
    BY <1>1, <1>2, <1>3, <1>4

\* A caller with no call has the locals of none.
LEMMA NoCallIn == NoCall \in Calls /\ NoCall.rescue = <<>> /\ ~NoCall.force
BY DEF NoCall, Calls, Own

----------------------------------------------------------------------------
\* What others may do to a task while one of its commands runs.
Drift(t) ==
    /\ ws[t] # None => ws'[t] # None
    /\ Blank(t) => Blank(t)'
    /\ Commits(t) \subseteq Commits(t)'
    /\ PushedTo(t) \subseteq PushedTo(t)'
    /\ window[t] = "none" => window'[t] = "none"
    /\ NothingThere(t) => NothingThere(t)'

SameCall(d) ==
    /\ todo'[d] = todo[d]
    /\ call'[d].cmd = call[d].cmd /\ call'[d].task = call[d].task /\ call'[d].force = call[d].force
    /\ call'[d].rescue = call[d].rescue /\ call'[d].seen = call[d].seen
    /\ call'[d].misread = call[d].misread /\ call'[d].opened = call[d].opened
    /\ call'[d].unclosed = call[d].unclosed /\ call'[d].failed = call[d].failed

\* A command without a task has the hub's steps only.
LEMMA HubCommandSteps ==
    ASSUME NEW c, Lawful(c), call[c] \in Calls, call[c].task = None, ~Idle(c)
    PROVE  /\ call[c].cmd \in HubCommand
           /\ \A i \in 1..Len(todo[c]) : todo[c][i] \in HubSteps \cup DaemonSteps
           /\ Head(todo[c]) \in HubSteps \cup DaemonSteps
<1>1. call[c].cmd \in HubCommand
    BY DEF Lawful
<1>2. Own[call[c].cmd] \subseteq HubSteps \cup DaemonSteps
    BY <1>1 DEF HubCommand, Own
<1> QED
    BY <1>1, <1>2, WhoseStep DEF Lawful

\* What others do leaves a call at the stage it is at.
LEMMA Bystander ==
    ASSUME NEW d, Stage(d), call[d] \in Calls, call'[d] \in Calls, SameCall(d), hook.exec => hook'.exec,
           call[d].task \in Task => Drift(call[d].task)
    PROVE  Stage(d)'
<1>1. Lawful(d)'
    BY DEF Stage, Lawful, SameCall, Idle, At, Pending
<1>2. HookFirst(d)'
    BY DEF Stage, HookFirst, SameCall, Idle, At
<1>3. CASE Idle(d)
    BY <1>1, <1>2, <1>3 DEF Stage, Idle, SameCall
<1>4. CASE ~Idle(d) /\ call[d].task \notin Task
  <2>1. /\ call[d].task = None /\ ~call[d].opened
        /\ call[d].cmd \in HubCommand
        /\ \A i \in 1..Len(todo[d]) : todo[d][i] \in HubSteps \cup DaemonSteps
        /\ Head(todo[d]) \in HubSteps \cup DaemonSteps
    BY <1>4, HubCommandSteps DEF Calls, Stage, SessionKnown, HubCommand
  <2>2. CopyKnown(d)'
    BY <2>1 DEF SameCall, CopyKnown, At, Pending, HubSteps, DaemonSteps, HubCommand
  <2>3. SessionKnown(d)'
    BY <2>1 DEF SameCall, SessionKnown, HubCommand
  <2> QED
    BY <1>1, <1>2, <2>2, <2>3 DEF Stage
<1>5. CASE ~Idle(d) /\ call[d].task \in Task
  <2>1. Drift(call[d].task) /\ call'[d].task = call[d].task
    BY <1>5 DEF SameCall
  <2>2. CopyKnown(d)'
    BY <1>5, <2>1 DEF Stage, CopyKnown, SameCall, Drift, At, Idle, Pending
  <2>3. SessionKnown(d)'
    BY <1>5, <2>1 DEF Stage, SessionKnown, SameCall, Drift, NothingThere, Knows, Closed, Removed,
                          StopSteps, AfterStop
  <2> QED
    BY <1>1, <1>2, <2>2, <2>3 DEF Stage
<1> QED
    BY <1>3, <1>4, <1>5

HubTyped ==
    /\ hub \in {"absent", "partial", "repo"} /\ main \in {"none", "seed", "pushed"}
    /\ pushed \in [Task -> (SUBSET Commit) \cup {None}]
    /\ hook \in [full : BOOLEAN, exec : BOOLEAN]
    /\ daemon \in BOOLEAN /\ pidfile \in {"none", "daemon", "other"}

FilesTyped ==
    /\ ws \in [Task -> WorkingCopy \cup {None}]
    /\ window \in [Task -> {"none", "run", "created", "attached"}]
    /\ container \in [Task -> {"none", "created", "running", "adrift", "exited"}]
    /\ shell \in BOOLEAN /\ calls \in 0..MaxCalls

CallsTyped ==
    /\ DOMAIN todo = Caller /\ call \in [Caller -> Calls]
    /\ \A c \in Caller : Idle(c) => call[c] = NoCall

\* The type invariant, by who writes the variables.
LEMMA TypeParts ==
    (TypeOK /\ call \in [Caller -> Calls]) <=> (HubTyped /\ FilesTyped /\ CallsTyped)
<1>1. ASSUME call \in [Caller -> Calls], NEW c \in Caller
      PROVE  /\ call[c].task \in Task \cup {None} /\ call[c].seen \subseteq Commit
             /\ call[c].mine \in {"none", "daemon", "other"}
    BY <1>1 DEF Calls
<1> QED
    BY <1>1 DEF TypeOK, HubTyped, FilesTyped, CallsTyped

\* What has to hold where a call arrives at step h with locals k, and with what
\* it has left then.
Reaches(h, k) ==
    LET t == k.task IN
    /\ k.cmd \in HubCommand <=> t = None
    /\ h \in {"new_window", "capture"} => k.rescue = Cleanup
    /\ h \in {"configure_hub", "port", "spawn"} => hook'.exec
    /\ h \in {"fetch", "count"} => ws'[t] # None
    /\ h = "exists" => k.seen \subseteq Commits(t)' /\ k.rescue = <<>>
    /\ k.cmd = "leader_up" /\ h # "exists" => k.seen = {}
    /\ h = "remove" => k.seen \subseteq PushedTo(t)'
    /\ k.cmd = "leader_up" /\ (k.rescue # <<>> \/ h \in StopSteps) => k.opened \/ k.misread \/ NothingThere(t)'
    /\ k.opened => k.cmd = "leader_up" /\ h \in StopSteps \cup {"capture", "compensate"}
    /\ k.cmd = "leader_down" \/ k.opened =>
         /\ h \in AfterStop \cup {"docker_stop", "docker_rm"} => window'[t] = "none" \/ k.unclosed
         /\ h \in AfterStop => container'[t] = "none" \/ k.failed \/ k.unclosed

Arrives(list, k) ==
    /\ Reaches(Head(list), k)
    /\ (\E i \in 1..Len(list) : list[i] = "configure") /\ Head(list) \notin {"exists", "fetch", "count", "remove"}
         => Blank(k.task)'
    /\ (\E i \in 1..Len(list) : list[i] = "ensure") /\ (\A i \in 1..Len(list) : list[i] # "look")
         => k.rescue # <<>>

\* A call that arrives at a step with what the step needs is at a stage.
LEMMA ArrivalStage ==
    ASSUME NEW c, NEW list, NEW k \in Calls, todo'[c] = list, call'[c] = IF list = <<>> THEN NoCall ELSE k,
           Linked(list), \A i \in 1..Len(list) : list[i] \in Own[k.cmd],
           k.force => k.cmd \in Forcible, k.rescue # <<>> => k.cmd = "leader_up",
           list # <<>> => Arrives(list, k)
    PROVE  Stage(c)'
<1>1. CASE list = <<>>
  <2>1. call'[c] = NoCall /\ Idle(c)' /\ ~At(c, "exists")' /\ ~At(c, "new_window")' /\ ~At(c, "capture")'
        /\ ~At(c, "configure_hub")' /\ ~At(c, "port")' /\ ~At(c, "spawn")'
    BY <1>1 DEF Idle, At
  <2>2. \A i \in 1..Len(todo'[c]) : FALSE
    BY <1>1
  <2> QED
    BY <1>1, <2>1, <2>2, NoCallIn, ShortLists DEF Stage, Lawful, HookFirst, Pending
<1>2. CASE list # <<>>
  <2>1. call'[c] = k /\ ~Idle(c)' /\ Arrives(list, k)
    BY <1>2 DEF Idle
  <2>2. Lawful(c)'
    BY <2>1 DEF Lawful, At, Arrives, Reaches, Pending
  <2>3. HookFirst(c)'
    BY <2>1 DEF HookFirst, At, Arrives, Reaches
  <2>4. CopyKnown(c)'
    BY <2>1 DEF CopyKnown, At, Pending, Arrives, Reaches
  <2>5. SessionKnown(c)'
    BY <2>1 DEF SessionKnown, Arrives, Reaches, Knows, Closed, Removed, NothingThere
  <2> QED
    BY <2>2, <2>3, <2>4, <2>5 DEF Stage
<1> QED
    BY <1>1, <1>2

\* A step of a call, or its beginning, keeps the invariant when the call arrives
\* at a step with what that needs and the step only drifts for other tasks.
LEMMA ArrivalInv ==
    ASSUME IInv, NEW c \in Caller, NEW list, NEW k \in Calls, Goto(c, list, k),
           Linked(list), \A i \in 1..Len(list) : list[i] \in Own[k.cmd],
           k.force => k.cmd \in Forcible, k.rescue # <<>> => k.cmd = "leader_up",
           list # <<>> => Arrives(list, k),
           \A d \in Caller \ {c} : k.task \in Task /\ ~Idle(d) => call[d].task # k.task,
           HubTyped', FilesTyped', CopiesHold', hook.exec => hook'.exec, daemon' => hook'.exec,
           \A t \in Task \ {k.task} : Drift(t)
    PROVE  IInv'
<1>1. /\ CallsTyped /\ call \in [Caller -> Calls] /\ DOMAIN todo = Caller
      /\ \A d \in Caller : Stage(d)
    BY TypeParts DEF IInv, CallsTyped
<1>2. /\ todo'[c] = list /\ call'[c] = IF list = <<>> THEN NoCall ELSE k
      /\ \A d \in Caller \ {c} : todo'[d] = todo[d] /\ call'[d] = call[d]
      /\ DOMAIN todo' = Caller /\ call' \in [Caller -> Calls]
    BY <1>1, NoCallIn DEF Goto
<1>3. CallsTyped'
    BY <1>1, <1>2 DEF CallsTyped, Idle
<1>4. OneCommand'
  <2> SUFFICES ASSUME NEW d \in Caller, NEW e \in Caller, d # e, ~Idle(d)', ~Idle(e)',
                      call'[d].task = call'[e].task, call'[d].task \in Task
               PROVE  FALSE
    BY DEF OneCommand
  <2>1. CASE d # c /\ e # c
    BY <1>2, <2>1 DEF IInv, OneCommand, Idle
  <2>2. CASE d = c
    BY <1>2, <2>2 DEF Idle
  <2>3. CASE e = c
    BY <1>2, <2>3 DEF Idle
  <2> QED
    BY <2>1, <2>2, <2>3
<1>5. Stage(c)'
    BY <1>2, ArrivalStage
<1>6. ASSUME NEW d \in Caller, d # c
      PROVE  Stage(d)'
  <2>1. SameCall(d) /\ Stage(d) /\ call[d] \in Calls /\ call'[d] \in Calls
    BY <1>1, <1>2, <1>6 DEF SameCall
  <2>2. CASE Idle(d)
    <3>1. call[d] = NoCall
      BY <1>1, <2>2 DEF CallsTyped
    <3>2. call[d].task = None
      BY <3>1 DEF NoCall
    <3> QED
      BY <2>1, <2>2, <3>1 DEF Stage, Lawful, HookFirst, SameCall, Idle, At, Pending
  <2>3. CASE ~Idle(d)
    <3>1. call[d].task \in Task => call[d].task # k.task \/ k.task \notin Task
      BY <1>6, <2>3
    <3>2. call[d].task \in Task => Drift(call[d].task)
      BY <3>1
    <3> QED
      BY <2>1, <3>2, Bystander
  <2> QED
    BY <2>2, <2>3
<1>7. TypeOK' /\ call' \in [Caller -> Calls]
  <2>1. (HubTyped /\ FilesTyped /\ CallsTyped)' => (TypeOK /\ call \in [Caller -> Calls])'
    BY TypeParts, PTL
  <2> QED
    BY <1>3, <2>1
<1> QED
    BY <1>3, <1>4, <1>5, <1>6, <1>7 DEF IInv

\* What the invariant says of a call that has steps left.
LEMMA Running ==
    ASSUME IInv, NEW c \in Caller, ~Idle(c)
    PROVE  /\ call[c] \in Calls /\ Stage(c) /\ Lawful(c) /\ HookFirst(c) /\ CopyKnown(c) /\ SessionKnown(c)
           /\ call[c].cmd \in HubCommand <=> call[c].task = None
           /\ call[c].force => call[c].cmd \in Forcible
           /\ call[c].rescue # <<>> => call[c].cmd = "leader_up"
           /\ \A d \in Caller \ {c} : call[c].task \in Task /\ ~Idle(d) => call[d].task # call[c].task
           /\ HubTyped /\ FilesTyped /\ CopiesHold
BY TypeParts DEF IInv, Stage, Lawful, OneCommand

----------------------------------------------------------------------------
\* The steps of the hub's procedures.

\* A step of the hub's procedures leaves the working copies alone.
LEMMA FilesStand ==
    ASSUME IInv, UNCHANGED <<ws, window, container, shell, calls, pushed>>
    PROVE  FilesTyped' /\ CopiesHold' /\ \A t \in Task : Drift(t)
<1>1. FilesTyped /\ CopiesHold
    BY TypeParts DEF IInv
<1> QED
    BY <1>1 DEF FilesTyped, CopiesHold, Drift, Blank, Commits, PushedTo, NothingThere

\* A step of theirs that goes on in its own procedure, or behind it.
LEMMA HubForward ==
    ASSUME IInv, NEW c \in Caller, ~Idle(c), Head(todo[c]) \in HubSteps \cup DaemonSteps,
           UNCHANGED <<ws, window, container, shell, calls, pushed>>,
           HubTyped', hook.exec => hook'.exec, daemon' => hook'.exec,
           NEW list, NEW k \in Calls, Goto(c, list, k), Linked(list),
           \A i \in 1..Len(list) : list[i] \in Own[call[c].cmd] /\ \E j \in 1..Len(todo[c]) : list[i] = todo[c][j],
           k.cmd = call[c].cmd, k.task = call[c].task, k.force = call[c].force,
           k.rescue = call[c].rescue, k.seen = call[c].seen,
           k.misread = call[c].misread, k.opened = call[c].opened,
           \A j \in 1..Len(todo[c]) : todo[c][j] = "look" => \E i \in 1..Len(list) : list[i] = "look",
           list # <<>> => Head(list) \in HubSteps \cup DaemonSteps \cup {"clone", "ensure"},
           list # <<>> /\ Head(list) \in {"configure_hub", "port", "spawn"} => hook'.exec
    PROVE  IInv'
<1>1. /\ CopyKnown(c) /\ SessionKnown(c) /\ call[c] \in Calls /\ Lawful(c)
      /\ call[c].cmd \in HubCommand <=> call[c].task = None
    BY Running
<1>2. call[c].cmd # "leader_down" /\ ~call[c].opened
    BY <1>1, WhoseStep DEF SessionKnown, HubSteps, DaemonSteps, StopSteps
<1>3. ASSUME list # <<>>
      PROVE  Arrives(list, k)
  <2>1. ~At(c, "exists") /\ Head(todo[c]) \notin {"exists", "fetch", "count", "remove"}
    BY DEF At, HubSteps, DaemonSteps
  <2>2. (\E i \in 1..Len(list) : list[i] = "configure") => Blank(k.task)
    BY <1>1, <2>1 DEF CopyKnown, Pending
  <2>3. Blank(k.task) => Blank(k.task)'
    BY DEF Blank
  <2>4. k.cmd = "leader_up" => k.seen = {}
    BY <1>1, <2>1 DEF CopyKnown
  <2>5. k.cmd = "leader_up" /\ k.rescue # <<>> => k.misread \/ NothingThere(k.task)
    BY <1>1, <1>2 DEF SessionKnown, Knows
  <2>6. NothingThere(k.task) => NothingThere(k.task)'
    BY DEF NothingThere
  <2>7. Head(list) \in HubSteps \cup DaemonSteps \cup {"clone", "ensure"}
    BY <1>3
  <2>8. (\E i \in 1..Len(list) : list[i] = "ensure") /\ (\A i \in 1..Len(list) : list[i] # "look")
        => k.rescue # <<>>
    BY <1>1 DEF Lawful, Pending
  <2> QED
    BY <1>1, <1>2, <1>3, <2>2, <2>3, <2>4, <2>5, <2>6, <2>7, <2>8
    DEF Arrives, Reaches, HubSteps, DaemonSteps, StopSteps
<1>4. \A d \in Caller \ {c} : k.task \in Task /\ ~Idle(d) => call[d].task # k.task
    BY Running
<1>5. (k.force => k.cmd \in Forcible) /\ (k.rescue # <<>> => k.cmd = "leader_up")
    BY Running
<1> QED
    BY <1>3, <1>4, <1>5, FilesStand, ArrivalInv

\* A step of theirs that raises.
LEMMA HubRaise ==
    ASSUME IInv, NEW c \in Caller, ~Idle(c), Head(todo[c]) \in HubSteps \cup DaemonSteps,
           UNCHANGED <<ws, window, container, shell, calls, pushed>>,
           HubTyped', hook.exec => hook'.exec, daemon' => hook'.exec, Raise(c)
    PROVE  IInv'
<1>1. PICK list, k : list = call[c].rescue /\ k = [call[c] EXCEPT !.rescue = <<>>]
    OBVIOUS
<1>2. /\ CopyKnown(c) /\ SessionKnown(c) /\ call[c] \in Calls /\ Lawful(c)
      /\ call[c].cmd \in HubCommand <=> call[c].task = None
    BY Running
<1>3. /\ k \in Calls /\ k.cmd = call[c].cmd /\ k.task = call[c].task /\ k.force = call[c].force
      /\ k.rescue = <<>> /\ k.seen = call[c].seen
      /\ k.misread = call[c].misread /\ k.opened = call[c].opened
    BY <1>1, <1>2 DEF Calls
<1>4. /\ Linked(list)
      /\ \A i \in 1..Len(list) : list[i] \in Own[call[c].cmd] /\ list[i] \in StopSteps \cup {"compensate"}
      /\ list # <<>> => call[c].cmd = "leader_up" /\ Head(list) \in {"kill_window", "compensate"}
    BY <1>1, <1>2, RaiseMove
<1>5. Goto(c, list, k)
    BY <1>1 DEF Raise
<1>6. call[c].cmd # "leader_down" /\ ~call[c].opened
    BY <1>2, WhoseStep DEF SessionKnown, HubSteps, DaemonSteps, StopSteps
<1>7. ASSUME list # <<>>
      PROVE  Arrives(list, k)
  <2>1. ~At(c, "exists") /\ call[c].rescue # <<>>
    BY <1>1, <1>7 DEF At, HubSteps, DaemonSteps
  <2>2. \A i \in 1..Len(list) : list[i] \notin {"configure", "ensure"}
    BY <1>4 DEF StopSteps
  <2>3. k.cmd = "leader_up" /\ k.seen = {}
    BY <1>2, <1>3, <1>4, <1>7, <2>1 DEF CopyKnown
  <2>4. k.misread \/ NothingThere(k.task)'
    BY <1>2, <1>3, <1>4, <1>6, <1>7, <2>1 DEF SessionKnown, Knows, NothingThere
  <2> QED
    BY <1>2, <1>3, <1>4, <1>6, <1>7, <2>2, <2>3, <2>4 DEF Arrives, Reaches
<1>8. \A d \in Caller \ {c} : k.task \in Task /\ ~Idle(d) => call[d].task # k.task
    BY <1>3, Running
<1>9. k.force => k.cmd \in Forcible
    BY <1>3, Running
<1> QED
    BY <1>3, <1>4, <1>5, <1>7, <1>8, <1>9, FilesStand, ArrivalInv

\* One that goes on to the next.
LEMMA HubNext ==
    ASSUME IInv, NEW c \in Caller, ~Idle(c), Head(todo[c]) \in HubSteps \cup DaemonSteps,
           UNCHANGED <<ws, window, container, shell, calls, pushed>>,
           HubTyped', hook.exec => hook'.exec, daemon' => hook'.exec,
           NEW m \in {"none", "daemon", "other"},
           Proceed(c) \/ Note(c, [call[c] EXCEPT !.mine = m]),
           Head(todo[c]) = "chmod_hook" => hook'.exec
    PROVE  IInv'
<1>1. call[c] \in Calls /\ Lawful(c) /\ HookFirst(c)
    BY Running
<1>2. PICK list, k : /\ list = Tail(todo[c]) /\ Goto(c, list, k)
                     /\ k = call[c] \/ k = [call[c] EXCEPT !.mine = m]
    BY DEF Proceed, Note
<1>3. /\ k \in Calls
      /\ k.cmd = call[c].cmd /\ k.task = call[c].task /\ k.force = call[c].force
      /\ k.rescue = call[c].rescue /\ k.seen = call[c].seen
      /\ k.misread = call[c].misread /\ k.opened = call[c].opened
    BY <1>1, <1>2 DEF Calls
<1>4. /\ Linked(list)
      /\ \A i \in 1..Len(list) : list[i] \in Own[call[c].cmd] /\ \E j \in 1..Len(todo[c]) : list[i] = todo[c][j]
      /\ list # <<>> => Follows(Head(todo[c]), Head(list))
      /\ \A j \in 1..Len(todo[c]) : todo[c][j] = "look" => \E i \in 1..Len(list) : list[i] = "look"
  <2>1. \A j \in 1..Len(todo[c]) : todo[c][j] # Head(todo[c]) => \E i \in 1..Len(list) : list[i] = todo[c][j]
    BY <1>1, <1>2, TailMove
  <2>2. Head(todo[c]) # "look"
    BY DEF HubSteps, DaemonSteps
  <2>3. /\ Linked(list)
        /\ \A i \in 1..Len(list) : list[i] \in Own[call[c].cmd] /\ \E j \in 1..Len(todo[c]) : list[i] = todo[c][j]
        /\ list # <<>> => Follows(Head(todo[c]), Head(list))
    BY <1>1, <1>2, TailMove
  <2> QED
    BY <2>1, <2>2, <2>3
<1>5. list # <<>> => Head(list) \in HubSteps \cup DaemonSteps \cup {"clone", "ensure"}
    BY <1>4 DEF Follows, HubSteps, DaemonSteps
<1>6. list # <<>> /\ Head(list) \in {"configure_hub", "port", "spawn"} => hook'.exec
    BY <1>1, <1>4 DEF Follows, HookFirst, At, HubSteps, DaemonSteps
<1> QED
    BY <1>2, <1>3, <1>4, <1>5, <1>6, HubForward

\* One that returns early.
LEMMA HubSkip ==
    ASSUME IInv, NEW c \in Caller, ~Idle(c), NEW n \in Nat,
           \/ Head(todo[c]) = "populated" /\ n = 5
           \/ Head(todo[c]) = "port" /\ n = 3
           \/ Head(todo[c]) = "kill_daemon" /\ n = 1,
           UNCHANGED <<ws, window, container, shell, calls, hubVars>>, Skip(c, n)
    PROVE  IInv'
<1>1. call[c] \in Calls /\ Lawful(c) /\ HubTyped /\ (daemon => hook.exec)
    BY Running DEF IInv
<1>2. PICK list, k : list = Rest(todo[c], n) /\ k = call[c] /\ Goto(c, list, k)
    BY DEF Skip, Rest
<1>3. /\ Linked(list)
      /\ \A i \in 1..Len(list) : list[i] \in Own[call[c].cmd] /\ \E j \in 1..Len(todo[c]) : list[i] = todo[c][j]
      /\ list # <<>> => Head(list) \in {"open_hook", "clone", "ensure"}
      /\ \A j \in 1..Len(todo[c]) : todo[c][j] = "look" => \E i \in 1..Len(list) : list[i] = "look"
  <2>1. list = Rest(todo[c], n)
    BY <1>2
  <2>2. /\ Linked(list)
        /\ \A i \in 1..Len(list) : list[i] \in Own[call[c].cmd] /\ \E j \in 1..Len(todo[c]) : list[i] = todo[c][j]
        /\ list # <<>> /\ Head(todo[c]) = "populated" /\ n = 5 => Head(list) = "open_hook"
        /\ list # <<>> /\ Head(todo[c]) = "port" /\ n = 3 => Head(list) \in {"clone", "ensure"}
        /\ Head(todo[c]) = "kill_daemon" /\ n = 1 => list = <<>>
    BY <1>1, <2>1, SkipMove
  <2>3. \A j \in 1..Len(todo[c]) : todo[c][j] = "look" => \E i \in 1..Len(list) : list[i] = todo[c][j]
    BY <1>1, <2>1, SkipMove
  <2> QED
    BY <2>2, <2>3
<1>4. HubTyped' /\ UNCHANGED <<hook, daemon, pushed>>
    BY <1>1 DEF HubTyped, hubVars
<1>5. Head(todo[c]) \in HubSteps \cup DaemonSteps /\ "open_hook" \in HubSteps
    BY DEF HubSteps, DaemonSteps
<1>6. k \in Calls
    BY <1>1, <1>2
<1> QED
    BY <1>1, <1>2, <1>3, <1>4, <1>5, <1>6, HubForward

\* The process of a call dies: nothing is left of it.
LEMMA GoneInv ==
    ASSUME IInv, NEW c \in Caller, NEW k, Goto(c, <<>>, k), HubTyped', FilesTyped', CopiesHold',
           hook.exec => hook'.exec, daemon' => hook'.exec,
           \A t \in Task \ {call[c].task} : Drift(t), ~Idle(c)
    PROVE  IInv'
<1>1. Goto(c, <<>>, [NoCall EXCEPT !.task = call[c].task])
    BY DEF Goto
<1>2. PICK j : j = [NoCall EXCEPT !.task = call[c].task]
    OBVIOUS
<1>3. j \in Calls /\ j.task = call[c].task /\ ~j.force /\ j.rescue = <<>>
    BY <1>2, Running DEF NoCall, Calls, Own
<1>4. \A d \in Caller \ {c} : j.task \in Task /\ ~Idle(d) => call[d].task # j.task
    BY <1>3, Running
<1>5. \A i \in 1..Len(<<>>) : FALSE
    OBVIOUS
<1> QED
    BY <1>1, <1>2, <1>3, <1>4, <1>5, ShortLists, ArrivalInv

\* The end of the daemon is nothing a call's stage is about.
LEMMA DaemonEndsCalls ==
    ASSUME CallsTyped, DaemonEnds
    PROVE  /\ call' \in [Caller -> Calls]
           /\ \A d \in Caller : todo'[d] = todo[d] => SameCall(d)
           /\ \A d \in Caller : call[d] = NoCall => call'[d] = NoCall
<1>1. \A d \in Caller : call[d] \in Calls
    BY DEF CallsTyped
<1>2. \A d \in Caller :
          call'[d] = [call[d] EXCEPT !.mine = IF call[d].mine = "daemon" THEN "other" ELSE call[d].mine]
    BY DEF DaemonEnds
<1>3. call' \in [Caller -> Calls]
    BY <1>1 DEF DaemonEnds, Calls
<1>4. \A d \in Caller : todo'[d] = todo[d] => SameCall(d)
    BY <1>1, <1>2 DEF Calls, SameCall
<1>5. \A d \in Caller : call[d] = NoCall => call'[d] = NoCall
    BY <1>2 DEF NoCall
<1> QED
    BY <1>3, <1>4, <1>5

\* The invariant from its parts.
LEMMA CallsKept ==
    ASSUME IInv, CallsTyped', HubTyped', FilesTyped', CopiesHold', hook.exec => hook'.exec,
           daemon' => hook'.exec, OneCommand', \A c \in Caller : Stage(c)'
    PROVE  IInv'
<1>1. (HubTyped /\ FilesTyped /\ CallsTyped)' => (TypeOK /\ call \in [Caller -> Calls])'
    BY TypeParts, PTL
<1> QED
    BY <1>1 DEF IInv

\* No call takes a step.
LEMMA WorldInv ==
    ASSUME IInv, todo' = todo, call' = call \/ DaemonEnds, HubTyped', FilesTyped', CopiesHold',
           hook.exec => hook'.exec, daemon' => hook'.exec, \A t \in Task : Drift(t)
    PROVE  IInv'
<1>1. CallsTyped /\ \A d \in Caller : call[d] \in Calls /\ Stage(d)
    BY TypeParts DEF IInv, CallsTyped
<1>2. /\ call' \in [Caller -> Calls]
      /\ \A d \in Caller : SameCall(d) /\ (call[d] = NoCall => call'[d] = NoCall)
    BY <1>1, DaemonEndsCalls DEF CallsTyped, SameCall
<1>3. CallsTyped'
    BY <1>1, <1>2 DEF CallsTyped, Idle
<1>4. OneCommand'
    BY <1>2 DEF IInv, OneCommand, SameCall, Idle
<1>5. ASSUME NEW d \in Caller
      PROVE  Stage(d)'
    BY <1>1, <1>2, Bystander
<1> QED
    BY <1>3, <1>4, <1>5, CallsKept

\* os.kill(pid), which ends the daemon only when the pid file names it.
LEMMA KillDaemonInv ==
    ASSUME IInv, NEW c \in Caller, KillDaemon(c), UNCHANGED <<ws, sessions, calls>>
    PROVE  IInv'
<1>1. ~Idle(c) /\ Head(todo[c]) = "kill_daemon" /\ Head(todo[c]) \in HubSteps \cup DaemonSteps
    BY DEF KillDaemon, At, DaemonSteps
<1>2. HubTyped /\ CallsTyped /\ (daemon => hook.exec)
    BY TypeParts DEF IInv
<1>3. HubTyped' /\ UNCHANGED <<hook, pushed, ws, window, container, shell, calls>> /\ (daemon' => hook'.exec)
  <2>1. UNCHANGED <<hub, main, pushed, hook, ws, window, container, shell, calls>>
    BY DEF KillDaemon, repository, sessions
  <2>2. \/ daemon' = daemon /\ pidfile' = pidfile
        \/ daemon' = FALSE /\ pidfile' \in {pidfile, "other"}
    BY DEF KillDaemon, service, DaemonEnds
  <2>3. daemon' \in BOOLEAN /\ pidfile' \in {"none", "daemon", "other"}
    BY <1>2, <2>2 DEF HubTyped
  <2>4. HubTyped'
    BY <1>2, <2>1, <2>3 DEF HubTyped
  <2>5. daemon' => hook'.exec
    BY <1>2, <2>1, <2>2
  <2> QED
    BY <2>1, <2>4, <2>5
<1>4. CASE pidfile = "none" /\ Skip(c, 1) /\ UNCHANGED service
  <2>1. UNCHANGED hubVars
    BY <1>4 DEF KillDaemon, hubVars, service, repository
  <2> QED
    BY <1>1, <1>3, <1>4, <2>1, HubSkip
<1>5. CASE pidfile = "other" /\ Proceed(c) /\ UNCHANGED service
    BY <1>1, <1>3, <1>5, HubNext
<1>6. CASE pidfile = "daemon" /\ todo' = [todo EXCEPT ![c] = Tail(@)] /\ DaemonEnds
  <2>1. \A d \in Caller : call[d] \in Calls /\ Stage(d)
    BY <1>2 DEF CallsTyped, IInv
  <2>2. /\ call' \in [Caller -> Calls]
        /\ \A d \in Caller : call[d] = NoCall => call'[d] = NoCall
        /\ \A d \in Caller : todo'[d] = todo[d] => SameCall(d)
    BY <1>2, <1>6, DaemonEndsCalls
  <2>3. DOMAIN todo' = Caller /\ todo'[c] = Tail(todo[c]) /\ \A d \in Caller \ {c} : todo'[d] = todo[d]
    BY <1>2, <1>6 DEF CallsTyped
  <2>4. PICK list, k : list = Tail(todo[c]) /\ k = call'[c]
    OBVIOUS
  <2>5. /\ k \in Calls /\ k.cmd = call[c].cmd /\ k.task = call[c].task /\ k.force = call[c].force
        /\ k.rescue = call[c].rescue /\ k.seen = call[c].seen /\ k.opened = call[c].opened
    BY <2>1, <2>4, <1>6 DEF DaemonEnds, Calls
  <2>6. /\ Linked(list) /\ list # <<>> /\ Head(list) = "unlink_pid"
        /\ \A i \in 1..Len(list) : list[i] \in Own[call[c].cmd]
    BY <1>1, <2>4, TailMove, Running DEF Follows
  <2>7. call[c].cmd = "hub_stop_daemon" /\ ~call[c].opened /\ call[c].rescue = <<>>
    BY <1>1, Running, WhoseStep DEF DaemonSteps, SessionKnown, Lawful
  <2>8. Arrives(list, k)
    <3>1. \A i \in 1..Len(list) : list[i] \notin {"configure", "ensure"}
      BY <2>6, <2>7 DEF Own, DaemonSteps
    <3> QED
      BY <1>1, <2>5, <2>6, <2>7, <3>1, Running DEF Arrives, Reaches, StopSteps
  <2>9. Stage(c)'
    BY <1>1, <2>3, <2>4, <2>5, <2>6, <2>7, <2>8, Running, ArrivalStage
  <2>10. ASSUME NEW d \in Caller, d # c
         PROVE  Stage(d)'
    <3>1. \A t \in Task : Drift(t)
      BY <1>3, FilesStand
    <3> QED
      BY <1>3, <2>1, <2>2, <2>3, <2>10, <3>1, Bystander
  <2>11. OneCommand'
    <3>1. \A d \in Caller : (~Idle(d)' => ~Idle(d)) /\ call'[d].task = call[d].task
      BY <1>1, <2>2, <2>3, <2>4, <2>5 DEF SameCall, Idle
    <3> QED
      BY <3>1 DEF IInv, OneCommand
  <2>12. CallsTyped'
    BY <1>2, <2>2, <2>3, <2>4, <2>6 DEF CallsTyped, Idle
  <2> QED
    BY <1>3, <2>9, <2>10, <2>11, <2>12, FilesStand, CallsKept
<1> QED
    BY <1>4, <1>5, <1>6 DEF KillDaemon

\* Every step of the hub's procedures keeps the invariant.
LEMMA HubStepInv ==
    ASSUME IInv, NEW c \in Caller, HubStep(c) \/ RefuseWhile(c, Session), UNCHANGED <<ws, sessions, calls>>
    PROVE  IInv'
<1>1. UNCHANGED <<ws, window, container, shell, calls>>
    BY DEF sessions
<1>2. HubTyped /\ (daemon => hook.exec) /\ (~Idle(c) => call[c] \in Calls)
    BY TypeParts, Running DEF IInv
<1> USE DEF HubSteps, DaemonSteps, At
<1>3. CASE OpenHook(c)
  <2>1. HubTyped' /\ hook'.exec = hook.exec /\ UNCHANGED <<pushed, daemon>>
    BY <1>2, <1>3 DEF OpenHook, HubTyped, service
  <2> QED
    BY <1>1, <1>2, <1>3, <2>1, HubNext DEF OpenHook
<1>4. CASE WriteHook(c)
  <2>1. HubTyped' /\ hook'.exec = hook.exec /\ UNCHANGED <<pushed, daemon>>
    BY <1>2, <1>4 DEF WriteHook, HubTyped, service, repository
  <2> QED
    BY <1>1, <1>2, <1>4, <2>1, HubNext, HubRaise DEF WriteHook
<1>5. CASE ChmodHook(c)
  <2>1. HubTyped' /\ hook'.exec = TRUE /\ UNCHANGED <<pushed, daemon>>
    BY <1>2, <1>5 DEF ChmodHook, HubTyped, service, repository
  <2> QED
    BY <1>1, <1>2, <1>5, <2>1, HubNext DEF ChmodHook
<1>6. CASE ConfigureHub(c) \/ (At(c, "ready") /\ (Proceed(c) \/ Raise(c)) /\ UNCHANGED hubVars)
                           \/ RefuseWhile(c, Session)
  <2>1. HubTyped' /\ UNCHANGED <<hook, pushed, daemon>>
    BY <1>2, <1>6 DEF ConfigureHub, RefuseWhile, HubTyped, hubVars
  <2> QED
    BY <1>1, <1>2, <1>6, <2>1, HubNext, HubRaise DEF ConfigureHub, RefuseWhile
<1>7. CASE Populated(c)
  <2>1. HubTyped' /\ UNCHANGED <<hook, pushed, daemon>> /\ Len(InitHub) - 1 = 5
    BY <1>2, <1>7, HubLists DEF Populated, HubTyped, hubVars
  <2> QED
    BY <1>1, <1>2, <1>7, <2>1, HubNext, HubSkip DEF Populated
<1>8. CASE Create(c)
  <2>1. HubTyped' /\ UNCHANGED <<hook, pushed, daemon>> /\ (Proceed(c) \/ Raise(c))
    BY <1>2, <1>8 DEF Create, CloneSeed, InitBare, HubTyped, service
  <2> QED
    BY <1>1, <1>2, <1>8, <2>1, HubNext, HubRaise DEF Create
<1>9. CASE Port(c)
  <2>1. HubTyped' /\ UNCHANGED <<hook, pushed, daemon>>
    BY <1>2, <1>9 DEF Port, HubTyped, hubVars
  <2> QED
    BY <1>1, <1>2, <1>9, <2>1, HubNext, HubSkip DEF Port
<1>10. CASE Spawn(c)
  <2>1. hook.exec
    BY <1>10, Running DEF Spawn, HookFirst
  <2>2. HubTyped' /\ UNCHANGED <<hook, pushed>>
    BY <1>2, <1>10 DEF Spawn, HubTyped, repository
  <2>3. (hook.exec => hook'.exec) /\ (daemon' => hook'.exec)
    BY <2>1, <2>2
  <2>4. PICK m \in {"daemon", "other"} : Note(c, [call[c] EXCEPT !.mine = m])
    BY <1>10 DEF Spawn
  <2>5. ~Idle(c) /\ Head(todo[c]) = "spawn"
    BY <1>10 DEF Spawn
  <2> QED
    BY <1>1, <2>2, <2>3, <2>4, <2>5, HubNext
<1>11. CASE WritePid(c)
  <2>1. UNCHANGED <<hub, main, pushed, hook, daemon>> /\ pidfile' = call[c].mine
        /\ ~Idle(c) /\ Head(todo[c]) = "write_pid" /\ Proceed(c)
    BY <1>11 DEF WritePid, repository
  <2>2. call[c].mine \in {"none", "daemon", "other"}
    BY <1>2, <2>1 DEF Calls
  <2>3. HubTyped'
    BY <1>2, <2>1, <2>2 DEF HubTyped
  <2>4. (hook.exec => hook'.exec) /\ (daemon' => hook'.exec)
    BY <1>2, <2>1
  <2>5. /\ ~Idle(c) /\ Head(todo[c]) \in HubSteps \cup DaemonSteps /\ Head(todo[c]) # "chmod_hook"
        /\ UNCHANGED <<ws, window, container, shell, calls, pushed>>
    BY <1>1, <2>1
  <2>6. Proceed(c) \/ Note(c, [call[c] EXCEPT !.mine = "none"])
    BY <2>1
  <2> HIDE DEF HubSteps, DaemonSteps
  <2> QED
    BY <2>3, <2>4, <2>5, <2>6, HubNext
<1>12. CASE Ready(c)
    BY <1>6, <1>12 DEF Ready
<1>13. CASE KillDaemon(c)
    BY <1>13, KillDaemonInv
<1>14. CASE UnlinkPid(c)
  <2>1. UNCHANGED <<hub, main, pushed, hook, daemon>> /\ pidfile' = "none"
        /\ ~Idle(c) /\ Head(todo[c]) = "unlink_pid" /\ Proceed(c)
    BY <1>14 DEF UnlinkPid, repository
  <2>2. HubTyped'
    BY <1>2, <2>1 DEF HubTyped
  <2>3. (hook.exec => hook'.exec) /\ (daemon' => hook'.exec)
    BY <1>2, <2>1
  <2>4. /\ ~Idle(c) /\ Head(todo[c]) \in HubSteps \cup DaemonSteps /\ Head(todo[c]) # "chmod_hook"
        /\ UNCHANGED <<ws, window, container, shell, calls, pushed>>
    BY <1>1, <2>1
  <2>5. Proceed(c) \/ Note(c, [call[c] EXCEPT !.mine = "none"])
    BY <2>1
  <2> HIDE DEF HubSteps, DaemonSteps
  <2> QED
    BY <2>2, <2>3, <2>4, <2>5, HubNext
<1>15. CASE Abort(c)
  <2>1. HubTyped' /\ UNCHANGED <<hook, pushed, daemon>>
    BY <1>2, <1>15 DEF Abort, HubTyped, hubVars
  <2> QED
    BY <1>1, <1>2, <1>15, <2>1, FilesStand, GoneInv DEF Abort
<1> QED
    BY <1>3, <1>4, <1>5, <1>6, <1>7, <1>8, <1>9, <1>10, <1>11, <1>12, <1>13, <1>14, <1>15 DEF HubStep

----------------------------------------------------------------------------
\* The steps on a working copy.

Elsewhere(t) ==
    \A u \in Task \ {t} : ws'[u] = ws[u] /\ window'[u] = window[u] /\ container'[u] = container[u]

\* A step on the files of one task.
LEMMA TaskStepInv ==
    ASSUME IInv, NEW c \in Caller, ~Idle(c), UNCHANGED hubVars, FilesTyped', CopiesHold',
           Elsewhere(call[c].task), NEW list, NEW k \in Calls, Goto(c, list, k), Linked(list),
           \A i \in 1..Len(list) : list[i] \in Own[call[c].cmd],
           k.cmd = call[c].cmd, k.task = call[c].task, k.force = call[c].force,
           k.rescue # <<>> => k.cmd = "leader_up", list # <<>> => Arrives(list, k)
    PROVE  IInv'
<1>1. HubTyped /\ (daemon => hook.exec)
    BY Running DEF IInv
<1>2. HubTyped' /\ UNCHANGED <<hook, daemon, pushed>>
    BY <1>1 DEF HubTyped, hubVars
<1>3. \A t \in Task \ {k.task} : Drift(t)
    BY <1>2 DEF Elsewhere, Drift, Blank, Commits, PushedTo, NothingThere
<1>4. \A d \in Caller \ {c} : k.task \in Task /\ ~Idle(d) => call[d].task # k.task
    BY Running
<1>5. k.force => k.cmd \in Forcible
    BY Running
<1> QED
    BY <1>1, <1>2, <1>3, <1>4, <1>5, ArrivalInv

\* What a step of a task's command starts from.
LEMMA AtStep ==
    ASSUME IInv, NEW c \in Caller, NEW h, At(c, h)
    PROVE  /\ ~Idle(c) /\ Head(todo[c]) = h /\ call[c] \in Calls /\ call[c].cmd # "none"
           /\ Lawful(c) /\ CopyKnown(c) /\ SessionKnown(c)
           /\ call[c].cmd \in HubCommand <=> call[c].task = None
           /\ call[c].force => call[c].cmd \in Forcible
           /\ call[c].rescue # <<>> => call[c].cmd = "leader_up"
           /\ FilesTyped /\ CopiesHold /\ HubTyped
BY Running, WhoseStep DEF At

\* The last step of a call, or the end of its process.
LEMMA EndInv ==
    ASSUME IInv, NEW c \in Caller, ~Idle(c), UNCHANGED hubVars, FilesTyped', CopiesHold',
           Elsewhere(call[c].task), NEW k, Goto(c, <<>>, k)
    PROVE  IInv'
<1>1. HubTyped /\ (daemon => hook.exec)
    BY Running DEF IInv
<1>2. HubTyped' /\ UNCHANGED <<hook, daemon, pushed>>
    BY <1>1 DEF HubTyped, hubVars
<1>3. \A t \in Task \ {call[c].task} : Drift(t)
    BY <1>2 DEF Elsewhere, Drift, Blank, Commits, PushedTo, NothingThere
<1> QED
    BY <1>1, <1>2, <1>3, GoneInv

\* A step that raises.
LEMMA RaiseInv ==
    ASSUME IInv, NEW c \in Caller, ~Idle(c), UNCHANGED <<hubVars, ws, window, container, calls>>,
           shell' \in BOOLEAN, Raise(c), Head(todo[c]) \notin StopSteps \cup {"compensate"}, call[c].cmd # "leader_down"
    PROVE  IInv'
<1>1. PICK list, k : list = call[c].rescue /\ k = [call[c] EXCEPT !.rescue = <<>>]
    OBVIOUS
<1>2. /\ CopyKnown(c) /\ SessionKnown(c) /\ call[c] \in Calls /\ Lawful(c) /\ FilesTyped /\ CopiesHold
      /\ call[c].cmd \in HubCommand <=> call[c].task = None
    BY Running
<1>3. /\ k \in Calls /\ k.cmd = call[c].cmd /\ k.task = call[c].task /\ k.force = call[c].force
      /\ k.rescue = <<>> /\ k.seen = call[c].seen /\ k.misread = call[c].misread /\ k.opened = call[c].opened
      /\ k.unclosed = call[c].unclosed /\ k.failed = call[c].failed
    BY <1>1, <1>2 DEF Calls
<1>4. /\ Linked(list)
      /\ \A i \in 1..Len(list) : list[i] \in Own[call[c].cmd] /\ list[i] \in StopSteps \cup {"compensate"}
      /\ list # <<>> => /\ call[c].cmd = "leader_up"
                        /\ Head(list) = IF list = Cleanup THEN "kill_window" ELSE "compensate"
    BY <1>1, <1>2, RaiseMove
<1>5. Goto(c, list, k)
    BY <1>1 DEF Raise
<1>6. FilesTyped' /\ CopiesHold' /\ Elsewhere(call[c].task)
    BY <1>2 DEF FilesTyped, CopiesHold, Elsewhere, hubVars, PushedTo
<1>7. ASSUME list # <<>>, call[c].opened => list = Cleanup
      PROVE  Arrives(list, k)
  <2>1. ~At(c, "exists") /\ call[c].rescue # <<>>
    BY <1>1, <1>2, <1>7 DEF Lawful
  <2>2. \A i \in 1..Len(list) : list[i] \notin {"configure", "ensure"}
    BY <1>4 DEF StopSteps
  <2>3. k.cmd = "leader_up" /\ k.seen = {}
    BY <1>2, <1>3, <1>4, <1>7, <2>1 DEF CopyKnown
  <2>4. k.opened \/ k.misread \/ NothingThere(k.task)'
    BY <1>2, <1>3, <1>4, <1>7, <2>1 DEF SessionKnown, Knows, NothingThere
  <2>5. k.opened => Head(list) = "kill_window"
    BY <1>3, <1>4, <1>7
  <2> QED
    BY <1>2, <1>3, <1>4, <1>7, <2>2, <2>3, <2>4, <2>5 DEF Arrives, Reaches, AfterStop, StopSteps
<1>8. call[c].opened => list = Cleanup
    BY <1>1, <1>2 DEF Lawful, SessionKnown, At
<1> QED
    BY <1>3, <1>4, <1>5, <1>6, <1>7, <1>8, TaskStepInv

\* What it has left when it goes on to its next step.
LEMMA NextList ==
    ASSUME IInv, NEW c \in Caller, ~Idle(c), NEW list, list = Tail(todo[c])
    PROVE  /\ Linked(list) /\ \A i \in 1..Len(list) : list[i] \in Own[call[c].cmd]
           /\ list # <<>> => Follows(Head(todo[c]), Head(list)) /\ Head(list) \in Own[call[c].cmd]
           /\ (\E i \in 1..Len(list) : list[i] = "configure")
                => Pending(c, "configure") /\ Head(todo[c]) # "configure"
           /\ Head(todo[c]) # "look" /\ (\E i \in 1..Len(list) : list[i] = "ensure")
              /\ (\A i \in 1..Len(list) : list[i] # "look")
                => call[c].rescue # <<>>
<1>1. call[c] \in Calls /\ Lawful(c)
    BY Running
<1>2. /\ Linked(list)
      /\ \A i \in 1..Len(list) : list[i] \in Own[call[c].cmd] /\ \E j \in 1..Len(todo[c]) : list[i] = todo[c][j]
      /\ list # <<>> => Follows(Head(todo[c]), Head(list)) /\ Head(list) \in Own[call[c].cmd]
      /\ Head(todo[c]) = "configure" => \A i \in 1..Len(list) : list[i] # "configure"
    BY <1>1, TailMove
<1>3. \A j \in 1..Len(todo[c]) : todo[c][j] # Head(todo[c]) => \E i \in 1..Len(list) : list[i] = todo[c][j]
    BY <1>1, TailMove
<1>4. (\E i \in 1..Len(list) : list[i] = "configure") => Pending(c, "configure") /\ Head(todo[c]) # "configure"
    BY <1>2 DEF Pending
<1>5. Head(todo[c]) # "look" /\ (\E i \in 1..Len(list) : list[i] = "ensure")
      /\ (\A i \in 1..Len(list) : list[i] # "look") => call[c].rescue # <<>>
    BY <1>1, <1>2, <1>3 DEF Lawful, Pending
<1> QED
    BY <1>2, <1>4, <1>5

\* What a step makes of the files that changes the working copy only.
LEMMA CopySet ==
    ASSUME IInv, NEW t \in Task, NEW w \in WorkingCopy \cup {None}, ws' = [ws EXCEPT ![t] = w],
           UNCHANGED <<hubVars, window, container, shell, calls>>,
           container[t] = "running" => w # None,
           w # None /\ w.hubRef # None => w.hubRef \subseteq PushedTo(t)
    PROVE  /\ FilesTyped' /\ CopiesHold' /\ Elsewhere(t) /\ ws'[t] = w
           /\ PushedTo(t)' = PushedTo(t) /\ (NothingThere(t) => NothingThere(t)')
<1>1. FilesTyped /\ CopiesHold
    BY TypeParts DEF IInv
<1>2. ws'[t] = w /\ \A u \in Task \ {t} : ws'[u] = ws[u]
    BY <1>1 DEF FilesTyped
<1>3. FilesTyped'
    BY <1>1 DEF FilesTyped
<1>4. PushedTo(t)' = PushedTo(t) /\ (NothingThere(t) => NothingThere(t)') /\ Elsewhere(t)
    BY <1>2 DEF hubVars, PushedTo, NothingThere, Elsewhere
<1>5. CopiesHold'
    BY <1>1, <1>2 DEF CopiesHold, hubVars, PushedTo
<1> QED
    BY <1>2, <1>3, <1>4, <1>5

\* A step that changes no file.
LEMMA FilesKept ==
    ASSUME IInv, UNCHANGED <<hubVars, ws, window, container, shell, calls>>, NEW t
    PROVE  FilesTyped' /\ CopiesHold' /\ Elsewhere(t)
BY TypeParts DEF IInv, FilesTyped, CopiesHold, hubVars, PushedTo, Elsewhere

\* provision's test of the directory.
LEMMA ExistsInv ==
    ASSUME IInv, NEW c \in Caller, Exists(c, call[c].task)
    PROVE  IInv'
<1>1. PICK t \in Task : t = call[c].task
    BY AtStep, WhoseStep DEF Exists, StepName, ProvisionSteps, HubSteps, DaemonSteps
<1>2. /\ ~Idle(c) /\ Head(todo[c]) = "exists" /\ At(c, "exists") /\ call[c] \in Calls /\ Lawful(c)
      /\ CopyKnown(c) /\ SessionKnown(c) /\ call[c].cmd \notin HubCommand /\ call[c].rescue = <<>>
      /\ call[c].cmd \in {"workspace_create", "leader_up"} /\ ~call[c].opened
      /\ (call[c].force => call[c].cmd = "workspace_create")
  <2>1. At(c, "exists")
    BY DEF Exists
  <2>2. call[c].cmd \in {"workspace_create", "leader_up"}
    BY <2>1, AtStep, WhoseStep
  <2> QED
    BY <2>1, <2>2, AtStep DEF Lawful, SessionKnown, StopSteps, Forcible, HubCommand
<1>3. UNCHANGED <<hubVars, ws, window, container, shell, calls>>
    BY DEF Exists, sessions
<1>4. CASE ws[t] = None /\ Proceed(c)
  <2>1. PICK list, k : list = Tail(todo[c]) /\ k = call[c] /\ Goto(c, list, k)
    BY <1>4 DEF Proceed
  <2>2. /\ Linked(list) /\ \A i \in 1..Len(list) : list[i] \in Own[call[c].cmd]
        /\ list # <<>> => Head(list) = "populated"
        /\ (\E i \in 1..Len(list) : list[i] = "ensure") /\ (\A i \in 1..Len(list) : list[i] # "look")
           => call[c].rescue # <<>>
    BY <1>2, <2>1, NextList DEF Follows
  <2>3. Blank(t)' /\ call[c].seen = {}
    BY <1>1, <1>2, <1>3, <1>4 DEF Blank, CopyKnown, Commits
  <2>4. /\ k.task = t /\ k.cmd # "leader_down" /\ k.cmd \notin HubCommand /\ t # None
        /\ ~k.opened /\ k.rescue = <<>> /\ k.seen = {}
        /\ (\E i \in 1..Len(list) : list[i] = "ensure") => (\E i \in 1..Len(list) : list[i] = "look")
    BY <1>1, <1>2, <2>1, <2>2, <2>3, HubAssumption
  <2>5. list # <<>> => Arrives(list, k)
    BY <2>2, <2>3, <2>4 DEF Arrives, Reaches, StopSteps, AfterStop
  <2> QED
    BY <1>2, <1>3, <2>1, <2>2, <2>5, FilesKept, TaskStepInv
<1>5. CASE Raise(c)
    BY <1>2, <1>3, <1>5, RaiseInv, TypeParts DEF IInv, FilesTyped, StopSteps
<1>6. CASE ws[t] # None /\ call[c].force /\ Goto(c, Tail(Teardown) \o Tail(todo[c]), call[c])
  <2>1. PICK list, k : list = Tail(Teardown) \o Tail(todo[c]) /\ k = call[c] /\ Goto(c, list, k)
    BY <1>6
  <2>2. Linked(todo[c]) /\ todo[c] # <<>> /\ \A i \in 1..Len(todo[c]) : todo[c][i] \in Own[call[c].cmd]
    BY <1>2 DEF Lawful, Idle
  <2>3. /\ Linked(list) /\ list # <<>> /\ Head(list) = "fetch"
        /\ \A i \in 1..Len(list) :
              list[i] \in {"fetch", "count", "remove"} \/ \E j \in 1..Len(todo[c]) : list[i] = todo[c][j]
    <3>1. Head(todo[c]) = "exists" /\ list = Forced(todo[c])
      BY <1>2, <2>1 DEF Forced
    <3> QED
      BY <2>2, <3>1, ForcedList
  <2>4. call[c].cmd = "workspace_create"
    BY <1>2, <1>6
  <2>5. \A i \in 1..Len(list) : list[i] \in Own[call[c].cmd] /\ list[i] # "ensure"
    BY <2>2, <2>3, <2>4 DEF Own, ProvisionSteps, HubSteps
  <2>6. /\ k.task = t /\ k.cmd = "workspace_create" /\ k.cmd \notin HubCommand /\ t # None
        /\ ~k.opened /\ k.rescue = <<>> /\ ws'[t] # None
    BY <1>1, <1>2, <1>3, <1>6, <2>1, <2>4, HubAssumption
  <2>7. Arrives(list, k)
    BY <2>3, <2>5, <2>6 DEF Arrives, Reaches
  <2> QED
    BY <1>2, <1>3, <2>1, <2>3, <2>5, <2>7, FilesKept, TaskStepInv
<1> QED
    BY <1>1, <1>4, <1>5, <1>6 DEF Exists

\* A step that goes on to the next.
LEMMA OnwardInv ==
    ASSUME IInv, NEW c \in Caller, ~Idle(c), UNCHANGED hubVars, FilesTyped', CopiesHold',
           Elsewhere(call[c].task), NEW k \in Calls, Note(c, k),
           k.cmd = call[c].cmd, k.task = call[c].task, k.force = call[c].force,
           k.rescue # <<>> => k.cmd = "leader_up",
           call[c].rescue # <<>> \/ Head(todo[c]) = "look" => k.rescue # <<>>,
           Pending(c, "configure") => Blank(k.task)' \/ Head(todo[c]) \in {"configure", "fetch", "count"},
           \A h \in Own[call[c].cmd] : Follows(Head(todo[c]), h) => Reaches(h, k)
    PROVE  IInv'
<1>1. PICK list : list = Tail(todo[c]) /\ Goto(c, list, k)
    BY DEF Note
<1>2. /\ Linked(list) /\ \A i \in 1..Len(list) : list[i] \in Own[call[c].cmd]
      /\ list # <<>> => Follows(Head(todo[c]), Head(list)) /\ Head(list) \in Own[call[c].cmd]
    BY <1>1, NextList
<1>3. ASSUME list # <<>>
      PROVE  Arrives(list, k)
  <2>1. Reaches(Head(list), k)
    BY <1>2, <1>3
  <2>2. (\E i \in 1..Len(list) : list[i] = "configure") => Pending(c, "configure") /\ Head(todo[c]) # "configure"
    BY <1>1, NextList
  <2>3. Head(todo[c]) \in {"fetch", "count"} => Head(list) \in {"count", "remove"}
    BY <1>2, <1>3 DEF Follows
  <2>4. (\E i \in 1..Len(list) : list[i] = "ensure") /\ (\A i \in 1..Len(list) : list[i] # "look")
        => k.rescue # <<>>
    BY <1>1, NextList
  <2> QED
    BY <2>1, <2>2, <2>3, <2>4 DEF Arrives
<1> QED
    BY <1>1, <1>2, <1>3, TaskStepInv

\* What a call of a task's command has at a step that is not the hub's.
LEMMA TaskCall ==
    ASSUME IInv, NEW c \in Caller, NEW h, At(c, h), h \in StepName \ (HubSteps \cup DaemonSteps)
    PROVE  call[c].task \in Task /\ call[c].cmd \notin HubCommand /\ call[c].task # None
BY AtStep, WhoseStep, HubAssumption

\* git clone: there is no copy it could lose.
LEMMA CloneInv ==
    ASSUME IInv, NEW c \in Caller, Clone(c, call[c].task)
    PROVE  IInv'
<1>1. PICK t : t = call[c].task
    OBVIOUS
<1>2. At(c, "clone") /\ ~Idle(c) /\ Head(todo[c]) = "clone" /\ call[c] \in Calls /\ CopyKnown(c) /\ SessionKnown(c)
    BY AtStep DEF Clone
<1>3. t \in Task /\ call[c].cmd \notin HubCommand /\ t # None
    BY <1>1, <1>2, TaskCall DEF StepName, ProvisionSteps, HubSteps, DaemonSteps
<1>4. /\ call[c].cmd \in {"workspace_create", "leader_up"} /\ ~call[c].opened
      /\ call[c].cmd = "leader_up" => call[c].seen = {} /\ (call[c].rescue # <<>> => call[c].misread \/ NothingThere(t))
    BY <1>1, <1>2, AtStep, WhoseStep DEF CopyKnown, SessionKnown, Knows, StopSteps, At
<1>5. UNCHANGED <<hubVars, window, container, shell, calls>> /\ Proceed(c)
    BY DEF Clone, sessions
<1>6. /\ FilesTyped' /\ CopiesHold' /\ Elsewhere(t) /\ (NothingThere(t) => NothingThere(t)')
      /\ Blank(t) => Blank(t)'
  <2>1. CASE ws[t] = None /\ ws' = [ws EXCEPT ![t] = [Husk EXCEPT !.clone = TRUE, !.hubRef = pushed[t]]]
    <3>1. PICK w : w = [Husk EXCEPT !.clone = TRUE, !.hubRef = pushed[t]]
      OBVIOUS
    <3>2. pushed[t] \in (SUBSET Commit) \cup {None}
      BY <1>3, AtStep, <1>2 DEF HubTyped
    <3>3. w \in WorkingCopy /\ w # None /\ w.branch = None /\ w.hubRef = pushed[t]
      <4>1. w = [clone |-> TRUE, branch |-> None, hubRef |-> pushed[t]]
        BY <3>1 DEF Husk
      <4>2. w \in WorkingCopy
        BY <3>2, <4>1 DEF WorkingCopy
      <4> QED
        BY <4>1, <4>2, LifecycleAssumption
    <3>4. ws' = [ws EXCEPT ![t] = w]
      BY <2>1, <3>1
    <3>5. w.hubRef # None => w.hubRef \subseteq PushedTo(t)
      BY <3>3 DEF PushedTo
    <3>6. /\ FilesTyped' /\ CopiesHold' /\ Elsewhere(t) /\ ws'[t] = w /\ (NothingThere(t) => NothingThere(t)')
      BY <1>3, <1>5, <3>3, <3>4, <3>5, CopySet
    <3> QED
      BY <3>3, <3>6 DEF Blank
  <2>2. CASE UNCHANGED ws
    BY <1>5, <2>2, FilesKept DEF Blank, NothingThere
  <2> QED
    BY <1>1, <2>1, <2>2 DEF Clone
<1>7. Pending(c, "configure") => Blank(t)
    BY <1>1, <1>2 DEF CopyKnown
<1>8. PICK k : k = call[c]
    OBVIOUS
<1>9. /\ k \in Calls /\ Note(c, k) /\ (k.rescue # <<>> => k.cmd = "leader_up")
      /\ k.cmd = call[c].cmd /\ k.task = t /\ k.force = call[c].force /\ k.rescue = call[c].rescue
    BY <1>1, <1>2, <1>5, <1>8, AtStep DEF Proceed, Note
<1>10. \A h \in Own[call[c].cmd] : Follows("clone", h) => Reaches(h, k)
    BY <1>3, <1>4, <1>6, <1>8, <1>9 DEF Follows, Reaches, StopSteps, AfterStop
<1> QED
    BY <1>1, <1>2, <1>5, <1>6, <1>7, <1>9, <1>10, OnwardInv

\* git checkout -b: the copy it configures has no task branch.
LEMMA ConfigureInv ==
    ASSUME IInv, NEW c \in Caller, Configure(c, call[c].task)
    PROVE  IInv'
<1>1. PICK t, k : t = call[c].task /\ k = call[c]
    OBVIOUS
<1>2. At(c, "configure") /\ ~Idle(c) /\ Head(todo[c]) = "configure" /\ k \in Calls /\ SessionKnown(c)
    BY <1>1, AtStep DEF Configure
<1>3. t \in Task /\ k.cmd \notin HubCommand /\ t # None
    BY <1>1, <1>2, TaskCall DEF StepName, ProvisionSteps, HubSteps, DaemonSteps
<1>4. /\ k.cmd \in {"workspace_create", "leader_up"} /\ ~k.opened
      /\ k.cmd = "leader_up" => k.seen = {} /\ (k.rescue # <<>> => k.misread \/ NothingThere(t))
      /\ k.rescue # <<>> => k.cmd = "leader_up"
    BY <1>1, <1>2, AtStep, WhoseStep DEF CopyKnown, SessionKnown, Knows, StopSteps, At
<1>5. UNCHANGED <<hubVars, window, container, shell, calls>>
    BY DEF Configure, sessions
<1>6. CASE Proceed(c) /\ ws[t] # None
           /\ ws' = IF ws[t].clone THEN [ws EXCEPT ![t].branch = {}] ELSE ws
  <2>1. FilesTyped' /\ CopiesHold' /\ Elsewhere(t) /\ (NothingThere(t) => NothingThere(t)')
    <3>1. CASE ws[t].clone
      <4>1. PICK w : w = [ws[t] EXCEPT !.branch = {}]
        OBVIOUS
      <4>2. ws[t] \in WorkingCopy
        BY <1>3, <1>6, AtStep, <1>2 DEF FilesTyped
      <4>3. w \in WorkingCopy /\ w # None /\ w.hubRef = ws[t].hubRef
        BY <4>1, <4>2, LifecycleAssumption DEF WorkingCopy
      <4>4. ws' = [ws EXCEPT ![t] = w]
        BY <1>6, <3>1, <4>1
      <4>5. w.hubRef # None => w.hubRef \subseteq PushedTo(t)
        BY <1>2, <1>3, <1>6, <4>3, AtStep DEF CopiesHold
      <4> QED
        BY <1>3, <1>5, <4>3, <4>4, <4>5, CopySet
    <3>2. CASE ~ws[t].clone
      BY <1>5, <1>6, <3>2, FilesKept DEF NothingThere
    <3> QED
      BY <3>1, <3>2
  <2>2. \A h \in Own[k.cmd] : Follows("configure", h) => Reaches(h, k)
    BY <1>1, <1>3, <1>4, <2>1 DEF Follows, Reaches, StopSteps, AfterStop
  <2>3. Note(c, k)
    BY <1>1, <1>6 DEF Proceed, Note
  <2> QED
    BY <1>1, <1>2, <1>4, <1>5, <2>1, <2>2, <2>3, OnwardInv
<1>7. CASE UNCHANGED ws /\ Raise(c)
  <2>1. shell' \in BOOLEAN
    BY <1>2, <1>5, AtStep DEF FilesTyped
  <2> QED
    BY <1>1, <1>2, <1>4, <1>5, <1>7, <2>1, RaiseInv DEF StopSteps
<1> QED
    BY <1>1, <1>6, <1>7 DEF Configure

\* git fetch: hub/<branch> becomes what the hub has.
LEMMA FetchInv ==
    ASSUME IInv, NEW c \in Caller, Fetch(c, call[c].task)
    PROVE  IInv'
<1>1. PICK t, k : t = call[c].task /\ k = call[c]
    OBVIOUS
<1>2. /\ At(c, "fetch") /\ ~Idle(c) /\ Head(todo[c]) = "fetch" /\ k \in Calls
      /\ SessionKnown(c) /\ CopyKnown(c)
    BY <1>1, AtStep DEF Fetch
<1>3. t \in Task /\ k.cmd \notin HubCommand /\ t # None
    BY <1>1, <1>2, TaskCall DEF StepName, RemovalSteps, ProvisionSteps, HubSteps, DaemonSteps
<1>4. /\ k.cmd # "leader_up" /\ ~k.opened /\ k.rescue = <<>> /\ ws[t] # None
      /\ k.cmd = "leader_down" => Closed(k, t) /\ Removed(k, t)
    BY <1>1, <1>2, AtStep, WhoseStep DEF CopyKnown, SessionKnown, StopSteps, AfterStop
<1>5. UNCHANGED <<hubVars, window, container, shell, calls>> /\ Note(c, k)
    BY <1>1 DEF Fetch, sessions, Proceed, Note
<1>6. FilesTyped' /\ CopiesHold' /\ Elsewhere(t) /\ ws'[t] # None
  <2>1. CASE pushed[t] # None /\ ws' = [ws EXCEPT ![t].hubRef = pushed[t]]
    <3>1. PICK w : w = [ws[t] EXCEPT !.hubRef = pushed[t]]
      OBVIOUS
    <3>2. ws[t] \in WorkingCopy /\ pushed[t] \in (SUBSET Commit) \cup {None}
      BY <1>2, <1>3, <1>4, AtStep DEF FilesTyped, HubTyped
    <3>3. w \in WorkingCopy /\ w # None /\ w.hubRef = pushed[t]
      BY <3>1, <3>2, LifecycleAssumption DEF WorkingCopy
    <3>4. ws' = [ws EXCEPT ![t] = w]
      BY <2>1, <3>1
    <3>5. w.hubRef # None => w.hubRef \subseteq PushedTo(t)
      BY <3>3 DEF PushedTo
    <3>6. FilesTyped' /\ CopiesHold' /\ Elsewhere(t) /\ ws'[t] = w
      BY <1>3, <1>5, <3>3, <3>4, <3>5, CopySet
    <3> QED
      BY <3>3, <3>6
  <2>2. CASE UNCHANGED ws
    BY <1>4, <1>5, <2>2, FilesKept
  <2> QED
    BY <1>1, <2>1, <2>2 DEF Fetch
<1>7. \A h \in Own[k.cmd] : Follows("fetch", h) => Reaches(h, k)
    BY <1>1, <1>3, <1>4, <1>5, <1>6 DEF Follows, Reaches, Closed, Removed, StopSteps, AfterStop
<1> QED
    BY <1>1, <1>2, <1>4, <1>5, <1>6, <1>7, OnwardInv

\* rev-list: what it vouches for is in hub/<branch>, and so in the hub.
LEMMA CountInv ==
    ASSUME IInv, NEW c \in Caller, Count(c, call[c].task)
    PROVE  IInv'
<1>1. PICK t : t = call[c].task
    OBVIOUS
<1>2. /\ At(c, "count") /\ ~Idle(c) /\ Head(todo[c]) = "count" /\ call[c] \in Calls
      /\ SessionKnown(c) /\ CopyKnown(c) /\ FilesTyped /\ CopiesHold
    BY <1>1, AtStep DEF Count
<1>3. t \in Task /\ call[c].cmd \notin HubCommand /\ t # None
    BY <1>1, <1>2, TaskCall DEF StepName, RemovalSteps, ProvisionSteps, HubSteps, DaemonSteps
<1>4. /\ call[c].cmd # "leader_up" /\ ~call[c].opened /\ call[c].rescue = <<>> /\ ws[t] # None
      /\ call[c].cmd = "leader_down" => Closed(call[c], t) /\ Removed(call[c], t)
    BY <1>1, <1>2, AtStep, WhoseStep DEF CopyKnown, SessionKnown, StopSteps, AfterStop
<1>5. UNCHANGED <<hubVars, ws, window, container, shell, calls>>
    BY <1>1 DEF Count, sessions
<1>6. ASSUME NEW K \in SUBSET Commit, K \subseteq PushedTo(t), Note(c, [call[c] EXCEPT !.seen = K])
      PROVE  IInv'
  <2>1. PICK k : k = [call[c] EXCEPT !.seen = K]
    OBVIOUS
  <2>2. /\ k \in Calls /\ k.cmd = call[c].cmd /\ k.task = t /\ k.force = call[c].force /\ k.seen = K
        /\ k.rescue = <<>> /\ k.opened = call[c].opened
        /\ k.unclosed = call[c].unclosed /\ k.failed = call[c].failed /\ Note(c, k)
    BY <1>1, <1>2, <1>4, <1>6, <2>1 DEF Calls
  <2>3. PushedTo(t)' = PushedTo(t)
    BY <1>5 DEF PushedTo, hubVars
  <2>4. \A h \in Own[k.cmd] : Follows("count", h) => Reaches(h, k)
    BY <1>3, <1>4, <1>5, <1>6, <2>2, <2>3 DEF Follows, Reaches, Closed, Removed, StopSteps, AfterStop
  <2> QED
    BY <1>1, <1>2, <1>4, <1>5, <2>2, <2>4, FilesKept, OnwardInv
<1>7. CASE Raise(c)
  <2>1. Goto(c, <<>>, [call[c] EXCEPT !.rescue = <<>>])
    BY <1>4, <1>7 DEF Raise
  <2> QED
    BY <1>2, <1>5, <2>1, FilesKept, EndInv
<1>8. ASSUME ws[t].branch # None, ws[t].hubRef # None, ws[t].branch \subseteq ws[t].hubRef
      PROVE  ws[t].branch \in SUBSET Commit /\ ws[t].branch \subseteq PushedTo(t)
  <2>1. ws[t] \in WorkingCopy
    BY <1>2, <1>3, <1>4 DEF FilesTyped
  <2> QED
    BY <1>2, <1>3, <1>4, <1>8, <2>1 DEF WorkingCopy, CopiesHold
<1>9. CASE Note(c, [call[c] EXCEPT !.seen = {}])
  <2>1. PICK K \in SUBSET Commit : K \subseteq PushedTo(t) /\ Note(c, [call[c] EXCEPT !.seen = K])
    BY <1>9
  <2> QED
    BY <1>6, <2>1
<1>10. CASE /\ ws[t].branch # None /\ ws[t].hubRef # None /\ ws[t].branch \subseteq ws[t].hubRef
           /\ Note(c, [call[c] EXCEPT !.seen = ws[t].branch])
  <2>1. PICK K \in SUBSET Commit : K \subseteq PushedTo(t) /\ Note(c, [call[c] EXCEPT !.seen = K])
    BY <1>8, <1>10
  <2> QED
    BY <1>6, <2>1
<1> QED
    BY <1>1, <1>7, <1>9, <1>10 DEF Count

\* teardown's test of the directory.
LEMMA ThereInv ==
    ASSUME IInv, NEW c \in Caller, There(c, call[c].task)
    PROVE  IInv'
<1>1. PICK t : t = call[c].task
    OBVIOUS
<1>2. /\ At(c, "there") /\ ~Idle(c) /\ Head(todo[c]) = "there" /\ call[c] \in Calls /\ Lawful(c)
      /\ SessionKnown(c) /\ CopyKnown(c)
    BY AtStep DEF There
<1>3. t \in Task /\ call[c].cmd \notin HubCommand /\ t # None
    BY <1>1, <1>2, TaskCall DEF StepName, RemovalSteps, ProvisionSteps, HubSteps, DaemonSteps
<1>4. /\ call[c].cmd \in {"workspace_rm", "leader_down"} /\ ~call[c].opened /\ call[c].rescue = <<>>
      /\ call[c].cmd = "leader_down" => Closed(call[c], t) /\ Removed(call[c], t)
    BY <1>1, <1>2, AtStep, WhoseStep DEF CopyKnown, SessionKnown, StopSteps, AfterStop
<1>5. UNCHANGED <<hubVars, ws, window, container, shell, calls>>
    BY DEF There, sessions
<1>6. CASE Skip(c, 3)
  <2>1. PICK list : list = Rest(todo[c], 3) /\ Goto(c, list, call[c])
    BY <1>6 DEF Skip, Rest
  <2>2. list = <<>>
    <3>1. PICK n \in Nat : n = 3 /\ list = Rest(todo[c], n)
      BY <2>1
    <3>2. Head(todo[c]) = "there" /\ n = 3 => list = <<>>
      BY <1>2, <3>1, SkipMove
    <3> QED
      BY <1>2, <3>1, <3>2
  <2> QED
    BY <1>2, <1>5, <2>1, <2>2, FilesKept, EndInv
<1>7. CASE ws[t] # None /\ Proceed(c)
  <2>1. PICK k : k = call[c]
    OBVIOUS
  <2>2. /\ k \in Calls /\ k.cmd = call[c].cmd /\ k.task = t /\ k.force = call[c].force
        /\ k.rescue = call[c].rescue /\ k.rescue = <<>> /\ ~k.opened
        /\ k.unclosed = call[c].unclosed /\ k.failed = call[c].failed /\ Note(c, k)
    BY <1>1, <1>2, <1>4, <1>7, <2>1 DEF Proceed, Note
  <2>3. \A h \in Own[k.cmd] : Follows("there", h) => Reaches(h, k)
    BY <1>3, <1>4, <1>5, <1>7, <2>2 DEF Follows, Reaches, Closed, Removed, StopSteps, AfterStop
  <2>4. ~Pending(c, "configure")
    BY <1>2, <1>4 DEF Lawful, Pending, Own, RemovalSteps, StopSteps
  <2> QED
    BY <1>1, <1>2, <1>4, <1>5, <2>2, <2>3, <2>4, FilesKept, OnwardInv
<1>8. CASE Goto(c, <<"remove">>, [call[c] EXCEPT !.seen = {}])
  <2>1. PICK list, k : list = <<"remove">> /\ k = [call[c] EXCEPT !.seen = {}] /\ Goto(c, list, k)
    BY <1>8
  <2>2. /\ k \in Calls /\ k.cmd = call[c].cmd /\ k.task = t /\ k.force = call[c].force
        /\ k.rescue = <<>> /\ ~k.opened /\ k.seen = {}
        /\ k.unclosed = call[c].unclosed /\ k.failed = call[c].failed
    BY <1>1, <1>2, <1>4, <2>1 DEF Calls
  <2>3. /\ Linked(list) /\ Head(list) = "remove"
        /\ \A i \in 1..Len(list) : list[i] = "remove"
    BY <2>1, ShortLists
  <2>4. "remove" \in Own[call[c].cmd]
    BY <1>4 DEF Own, RemovalSteps
  <2>5. Arrives(list, k)
    BY <1>3, <1>4, <1>5, <2>2, <2>3 DEF Arrives, Reaches, Closed, Removed, StopSteps, AfterStop
  <2> QED
    BY <1>1, <1>2, <1>5, <2>1, <2>2, <2>3, <2>4, <2>5, FilesKept, TaskStepInv
<1> QED
    BY <1>1, <1>6, <1>7, <1>8 DEF There

\* What a step on the session of task t makes of the files.
LEMMA SessionSet ==
    ASSUME IInv, NEW t \in Task, UNCHANGED <<hubVars, calls>>, shell' \in BOOLEAN,
           NEW w \in WorkingCopy \cup {None},
           NEW x \in {"none", "run", "created", "attached"},
           NEW y \in {"none", "created", "running", "adrift", "exited"},
           ws' = [ws EXCEPT ![t] = w], window' = [window EXCEPT ![t] = x], container' = [container EXCEPT ![t] = y],
           y = "running" => w # None,
           w # None /\ w.hubRef # None => w.hubRef \subseteq PushedTo(t)
    PROVE  /\ FilesTyped' /\ CopiesHold' /\ Elsewhere(t)
           /\ ws'[t] = w /\ window'[t] = x /\ container'[t] = y
<1>1. FilesTyped /\ CopiesHold
    BY TypeParts DEF IInv
<1>2. /\ ws'[t] = w /\ window'[t] = x /\ container'[t] = y
      /\ \A u \in Task \ {t} : ws'[u] = ws[u] /\ window'[u] = window[u] /\ container'[u] = container[u]
    BY <1>1 DEF FilesTyped
<1>3. FilesTyped'
  <2>1. ws' \in [Task -> WorkingCopy \cup {None}]
    BY <1>1 DEF FilesTyped
  <2>2. window' \in [Task -> {"none", "run", "created", "attached"}]
    BY <1>1 DEF FilesTyped
  <2>3. container' \in [Task -> {"none", "created", "running", "adrift", "exited"}]
    BY <1>1 DEF FilesTyped
  <2> QED
    BY <1>1, <2>1, <2>2, <2>3 DEF FilesTyped
<1>4. CopiesHold'
    BY <1>1, <1>2 DEF CopiesHold, hubVars, PushedTo
<1> QED
    BY <1>2, <1>3, <1>4 DEF Elsewhere

\* shutil.rmtree of teardown and of the compensation.
LEMMA RemoveInv ==
    ASSUME IInv, NEW c \in Caller, Remove(c, call[c].task)
    PROVE  IInv'
<1>1. PICK t : t = call[c].task
    OBVIOUS
<1>2. /\ ~Idle(c) /\ Head(todo[c]) \in {"remove", "compensate"} /\ call[c] \in Calls /\ Lawful(c)
      /\ SessionKnown(c) /\ CopyKnown(c) /\ FilesTyped /\ CopiesHold
    BY AtStep DEF Remove
<1>3. t \in Task /\ call[c].cmd \notin HubCommand /\ t # None
    BY <1>1, <1>2, TaskCall
    DEF StepName, RemovalSteps, ProvisionSteps, HubSteps, DaemonSteps, StartSteps, StopSteps, At
<1>4. UNCHANGED <<hubVars, window, shell, calls>> /\ container' = [container EXCEPT ![t] = Mount(t)]
    BY <1>1 DEF Remove
<1>5. PICK y \in {"none", "created", "adrift", "exited"} : y = Mount(t)
    BY <1>2, <1>3 DEF FilesTyped, Mount
<1>6. window' = [window EXCEPT ![t] = window[t]]
    BY <1>2, <1>3, <1>4 DEF FilesTyped
<1>7. PICK x \in {"none", "run", "created", "attached"} : x = window[t]
    BY <1>2, <1>3 DEF FilesTyped
<1>8. CASE ws' = [ws EXCEPT ![t] = None] /\ Proceed(c)
  <2>1. PICK w : w = None
    OBVIOUS
  <2>2. /\ FilesTyped' /\ CopiesHold' /\ Elsewhere(t) /\ ws'[t] = None
        /\ window'[t] = window[t] /\ container'[t] = Mount(t)
    BY <1>2, <1>3, <1>4, <1>5, <1>6, <1>7, <1>8, <2>1, SessionSet DEF FilesTyped
  <2>3. PICK k : k = call[c] /\ Note(c, k)
    BY <1>8 DEF Proceed, Note
  <2>4. CASE Head(todo[c]) = "compensate"
    <3>1. \A h : ~Follows("compensate", h)
      BY DEF Follows
    <3>2. Tail(todo[c]) = <<>>
      BY <1>2, <2>4, <3>1, NextList
    <3> QED
      BY <1>1, <1>2, <1>4, <2>2, <2>3, <3>2, EndInv DEF Note
  <2>5. CASE Head(todo[c]) = "remove"
    <3>1. /\ call[c].cmd \in {"workspace_create", "workspace_rm", "leader_down"} /\ ~call[c].opened
          /\ call[c].rescue = <<>>
      BY <1>2, <2>5, WhoseStep DEF SessionKnown, StopSteps, Lawful
    <3>2. Blank(t)'
      BY <2>2 DEF Blank
    <3>3. "populated" \notin Own["leader_down"]
      BY DEF Own, StopSteps, RemovalSteps
    <3>4. \A h \in Own[call[c].cmd] : Follows("remove", h) => Reaches(h, k)
      BY <1>1, <1>3, <2>2, <2>3, <3>1, <3>3 DEF Follows, Reaches, StopSteps, AfterStop
    <3> QED
      BY <1>1, <1>2, <1>4, <2>2, <2>3, <2>5, <3>1, <3>2, <3>4, OnwardInv
  <2> QED
    BY <1>2, <2>4, <2>5
<1>9. CASE ws[t] # None /\ ws' = [ws EXCEPT ![t] = Husk] /\ Goto(c, <<>>, NoCall)
  <2>1. PICK w : w = Husk
    OBVIOUS
  <2>2. w \in WorkingCopy /\ w # None /\ w.hubRef = None
    BY <2>1, LifecycleAssumption DEF Husk, WorkingCopy
  <2>3. FilesTyped' /\ CopiesHold' /\ Elsewhere(t)
    BY <1>2, <1>3, <1>4, <1>5, <1>6, <1>7, <1>9, <2>1, <2>2, SessionSet DEF FilesTyped
  <2> QED
    BY <1>1, <1>2, <1>4, <1>9, <2>3, EndInv
<1> QED
    BY <1>1, <1>8, <1>9 DEF Remove

----------------------------------------------------------------------------
\* The steps on a session.

\* start's look: a call that passes it knows there is no session, if it was
\* shown what is there.
LEMMA LookInv ==
    ASSUME IInv, NEW c \in Caller, Look(c, call[c].task)
    PROVE  IInv'
<1>1. PICK t : t = call[c].task
    OBVIOUS
<1>2. /\ At(c, "look") /\ ~Idle(c) /\ Head(todo[c]) = "look" /\ call[c] \in Calls /\ Lawful(c)
      /\ SessionKnown(c) /\ CopyKnown(c)
    BY AtStep DEF Look
<1>3. t \in Task /\ call[c].cmd \notin HubCommand /\ t # None
    BY <1>1, <1>2, TaskCall DEF StepName, StartSteps, ProvisionSteps, HubSteps, DaemonSteps
<1>4. /\ call[c].cmd = "leader_up" /\ ~call[c].opened /\ call[c].seen = {}
      /\ call[c].rescue # <<>> => call[c].misread \/ NothingThere(t)
    BY <1>1, <1>2, WhoseStep DEF CopyKnown, SessionKnown, Knows, StopSteps, At, StartSteps
<1>5. UNCHANGED <<hubVars, ws, window, container, shell, calls>>
    BY DEF Look, sessions
<1>6. NothingThere(t) => NothingThere(t)'
    BY <1>5 DEF NothingThere
<1>7. CASE Note(c, [call[c] EXCEPT !.rescue = <<"compensate">>, !.misread = ~NothingThere(t)])
  <2>1. PICK k : k = [call[c] EXCEPT !.rescue = <<"compensate">>, !.misread = ~NothingThere(t)]
    OBVIOUS
  <2>2. /\ k \in Calls /\ k.cmd = "leader_up" /\ k.task = t /\ k.force = call[c].force
        /\ k.rescue = <<"compensate">> /\ ~k.opened /\ k.seen = {} /\ Note(c, k)
        /\ k.misread <=> ~NothingThere(t)
    BY <1>1, <1>2, <1>4, <1>7, <2>1 DEF Calls
  <2>3. k.rescue # <<>>
    BY <2>2, ShortLists
  <2>4. \A h \in Own[call[c].cmd] : Follows("look", h) => Reaches(h, k)
    BY <1>3, <1>4, <1>6, <1>7, <2>2 DEF Follows, Reaches, StopSteps, AfterStop
  <2>5. Pending(c, "configure") => Blank(t)'
    BY <1>1, <1>2, <1>5 DEF CopyKnown, Blank
  <2> QED
    BY <1>1, <1>2, <1>4, <1>5, <2>2, <2>3, <2>4, <2>5, FilesKept, OnwardInv
<1>8. CASE Goto(c, <<"compensate">>, call[c])
  <2>1. PICK list, k : list = <<"compensate">> /\ k = call[c] /\ Goto(c, list, k)
    BY <1>8
  <2>2. /\ Linked(list) /\ list # <<>> /\ Head(list) = "compensate"
        /\ \A i \in 1..Len(list) : list[i] = "compensate"
    BY <2>1, ShortLists
  <2>3. /\ k \in Calls /\ k.cmd = "leader_up" /\ k.task = t /\ k.force = call[c].force
        /\ k.rescue = call[c].rescue /\ ~k.opened /\ k.misread = call[c].misread /\ k.seen = {}
    BY <1>1, <1>2, <1>4, <2>1
  <2>4. "compensate" \in Own["leader_up"]
    BY DEF Own
  <2>5. Arrives(list, k)
    BY <1>3, <1>4, <1>6, <2>2, <2>3 DEF Arrives, Reaches, StopSteps, AfterStop
  <2> QED
    BY <1>1, <1>2, <1>4, <1>5, <2>1, <2>2, <2>3, <2>4, <2>5, FilesKept, TaskStepInv
<1> QED
    BY <1>1, <1>7, <1>8 DEF Look, NothingThere

\* The tmux session: from here the call has start's except clause.
LEMMA EnsureInv ==
    ASSUME IInv, NEW c \in Caller, Ensure(c)
    PROVE  IInv'
<1>1. PICK t : t = call[c].task
    OBVIOUS
<1>2. /\ At(c, "ensure") /\ ~Idle(c) /\ Head(todo[c]) = "ensure" /\ call[c] \in Calls /\ Lawful(c)
      /\ SessionKnown(c) /\ CopyKnown(c) /\ FilesTyped /\ CopiesHold
    BY AtStep DEF Ensure
<1>3. t \in Task /\ call[c].cmd \notin HubCommand /\ t # None
    BY <1>1, <1>2, TaskCall DEF StepName, StartSteps, ProvisionSteps, HubSteps, DaemonSteps
<1>4. /\ call[c].cmd = "leader_up" /\ ~call[c].opened /\ call[c].seen = {}
      /\ call[c].rescue # <<>> => call[c].misread \/ NothingThere(t)
    BY <1>1, <1>2, WhoseStep DEF CopyKnown, SessionKnown, Knows, StopSteps, At, StartSteps
<1>5. UNCHANGED <<hubVars, ws, window, container, calls>>
    BY DEF Ensure
<1>6. NothingThere(t) => NothingThere(t)'
    BY <1>5 DEF NothingThere
<1>7. shell' \in BOOLEAN
    BY <1>2 DEF Ensure, FilesTyped, Session
<1>8. FilesTyped' /\ CopiesHold' /\ Elsewhere(t)
    BY <1>2, <1>5, <1>7 DEF FilesTyped, CopiesHold, Elsewhere, hubVars, PushedTo
<1>9. CASE Note(c, [call[c] EXCEPT !.rescue = StopSession \o <<"compensate">>])
  <2>1. PICK k : k = [call[c] EXCEPT !.rescue = Cleanup]
    OBVIOUS
  <2>2. /\ k \in Calls /\ k.cmd = "leader_up" /\ k.task = t /\ k.force = call[c].force
        /\ k.rescue = Cleanup /\ ~k.opened /\ k.seen = {} /\ Note(c, k)
        /\ k.misread = call[c].misread
    <3>1. Note(c, k)
      BY <1>9, <2>1 DEF Cleanup
    <3> QED
      BY <1>1, <1>2, <1>4, <2>1, <3>1 DEF Calls
  <2>3. k.rescue # <<>>
    BY <2>2, ShortLists
  <2>4. call[c].rescue # <<>>
    <3>1. Linked(todo[c]) /\ todo[c] # <<>>
      BY <1>2 DEF Lawful, Idle
    <3>2. /\ Len(todo[c]) \in Nat \ {0} /\ Head(todo[c]) = todo[c][1]
          /\ \A i \in 1..(Len(todo[c]) - 1) : Follows(todo[c][i], todo[c][i + 1])
      BY <3>1, ListTail DEF Linked
    <3>3. Pending(c, "ensure")
      BY <1>2, <3>2 DEF Pending
    <3>4. /\ Len(todo[c]) > 1 => Follows(todo[c][1], todo[c][2])
          /\ Len(todo[c]) > 2 => Follows(todo[c][2], todo[c][3])
          /\ Len(todo[c]) > 3 => Follows(todo[c][3], todo[c][4])
      BY <3>2
    <3>5. \A i \in 1..Len(todo[c]) : todo[c][i] # "look"
      <4>1. /\ Len(todo[c]) > 1 => todo[c][2] = "new_window"
            /\ Len(todo[c]) > 2 => todo[c][3] = "capture"
            /\ Len(todo[c]) <= 3
        BY <1>2, <3>2, <3>4 DEF Follows
      <4>2. \A i \in 1..Len(todo[c]) : i \in 1..3
        BY <3>2, <4>1
      <4> QED
        BY <1>2, <3>2, <4>1, <4>2
    <3>6. ~Pending(c, "look")
      BY <3>5 DEF Pending
    <3> QED
      BY <1>2, <3>3, <3>6 DEF Lawful
  <2>5. \A h \in Own[call[c].cmd] : Follows("ensure", h) => Reaches(h, k)
    BY <1>3, <1>4, <1>6, <2>2, <2>4 DEF Follows, Reaches, StopSteps, AfterStop
  <2>6. Pending(c, "configure") => Blank(t)'
    BY <1>1, <1>2, <1>5 DEF CopyKnown, Blank
  <2> QED
    BY <1>1, <1>2, <1>4, <1>5, <1>8, <2>2, <2>3, <2>5, <2>6, OnwardInv
<1>10. CASE Raise(c)
    BY <1>2, <1>4, <1>5, <1>7, <1>10, RaiseInv DEF StopSteps
<1> QED
    BY <1>9, <1>10 DEF Ensure

\* The window: from here the call knows it is its own.
LEMMA NewWindowInv ==
    ASSUME IInv, NEW c \in Caller, NewWindow(c, call[c].task)
    PROVE  IInv'
<1>1. PICK t : t = call[c].task
    OBVIOUS
<1>2. /\ At(c, "new_window") /\ ~Idle(c) /\ Head(todo[c]) = "new_window" /\ call[c] \in Calls /\ Lawful(c)
      /\ SessionKnown(c) /\ CopyKnown(c) /\ FilesTyped /\ CopiesHold
    BY AtStep DEF NewWindow
<1>3. t \in Task /\ call[c].cmd \notin HubCommand /\ t # None
    BY <1>1, <1>2, TaskCall DEF StepName, StartSteps, ProvisionSteps, HubSteps, DaemonSteps
<1>4. /\ call[c].cmd = "leader_up" /\ ~call[c].opened /\ call[c].seen = {}
      /\ call[c].rescue = Cleanup /\ Cleanup # <<>>
    BY <1>1, <1>2, WhoseStep, ShortLists DEF CopyKnown, SessionKnown, StopSteps, At, StartSteps, Lawful
<1>5. UNCHANGED <<hubVars, ws, container, shell, calls>>
    BY DEF NewWindow
<1>6. CASE /\ window' = [window EXCEPT ![t] = IF @ = "none" THEN "run" ELSE @]
           /\ Note(c, [call[c] EXCEPT !.opened = TRUE])
  <2>1. FilesTyped' /\ CopiesHold' /\ Elsewhere(t)
    BY <1>2, <1>3, <1>5, <1>6 DEF FilesTyped, CopiesHold, Elsewhere, hubVars, PushedTo
  <2>2. PICK k : k = [call[c] EXCEPT !.opened = TRUE]
    OBVIOUS
  <2>3. /\ k \in Calls /\ k.cmd = "leader_up" /\ k.task = t /\ k.force = call[c].force
        /\ k.rescue = Cleanup /\ k.opened /\ k.seen = {} /\ Note(c, k)
    BY <1>1, <1>2, <1>4, <1>6, <2>2 DEF Calls
  <2>4. \A h \in Own[call[c].cmd] : Follows("new_window", h) => Reaches(h, k)
    BY <1>3, <1>4, <2>3 DEF Follows, Reaches, StopSteps, AfterStop
  <2>5. Pending(c, "configure") => Blank(t)'
    BY <1>1, <1>2, <1>5 DEF CopyKnown, Blank
  <2> QED
    BY <1>1, <1>2, <1>4, <1>5, <2>1, <2>3, <2>4, <2>5, OnwardInv
<1>7. CASE UNCHANGED window /\ Raise(c)
  <2>1. shell' \in BOOLEAN
    BY <1>2, <1>5 DEF FilesTyped
  <2> QED
    BY <1>2, <1>4, <1>5, <1>7, <2>1, RaiseInv DEF StopSteps
<1> QED
    BY <1>1, <1>6, <1>7 DEF NewWindow

\* tmux pipe-pane.
LEMMA StartCaptureInv ==
    ASSUME IInv, NEW c \in Caller, StartCapture(c)
    PROVE  IInv'
<1>1. ~Idle(c) /\ Head(todo[c]) = "capture" /\ call[c] \in Calls /\ Lawful(c) /\ FilesTyped
    BY AtStep DEF StartCapture
<1>2. call[c].cmd = "leader_up"
    BY <1>1, WhoseStep DEF StartSteps
<1>3. UNCHANGED <<hubVars, ws, window, container, shell, calls>>
    BY DEF StartCapture, sessions
<1>4. CASE Proceed(c)
  <2>1. Tail(todo[c]) = <<>>
    <3>1. \A h : ~Follows("capture", h)
      BY DEF Follows
    <3> QED
      BY <1>1, <3>1, NextList
  <2> QED
    BY <1>1, <1>3, <1>4, <2>1, FilesKept, EndInv DEF Proceed
<1>5. CASE Raise(c)
  <2>1. shell' \in BOOLEAN
    BY <1>1, <1>3 DEF FilesTyped
  <2> QED
    BY <1>1, <1>2, <1>3, <1>5, <2>1, RaiseInv DEF StopSteps
<1> QED
    BY <1>4, <1>5 DEF StartCapture

\* What a call knows when it stops a session.
LEMMA StopCall ==
    ASSUME IInv, NEW c \in Caller, ~Idle(c), Head(todo[c]) \in StopSteps, NEW t, t = call[c].task
    PROVE  /\ call[c] \in Calls /\ t \in Task /\ call[c].cmd \notin HubCommand /\ t # None
           /\ Pending(c, "configure") => Blank(t)
           /\ call[c].cmd = "leader_up" => call[c].seen = {} /\ Knows(call[c], t)
           /\ call[c].opened => call[c].cmd = "leader_up"
           /\ call[c].rescue # <<>> => call[c].cmd = "leader_up"
           /\ (call[c].cmd = "leader_down" \/ call[c].opened) /\ Head(todo[c]) # "kill_window" => Closed(call[c], t)
           /\ FilesTyped /\ CopiesHold
<1>1. /\ call[c] \in Calls /\ Lawful(c) /\ SessionKnown(c) /\ CopyKnown(c) /\ FilesTyped /\ CopiesHold
      /\ call[c].rescue # <<>> => call[c].cmd = "leader_up"
    BY Running
<1>2. t \in Task /\ call[c].cmd \notin HubCommand /\ t # None
    <2>1. At(c, Head(todo[c])) /\ Head(todo[c]) \in StepName \ (HubSteps \cup DaemonSteps)
      BY DEF At, StepName, StopSteps, HubSteps, DaemonSteps
    <2> QED
      BY <2>1, TaskCall
<1>3. (Pending(c, "configure") => Blank(t)) /\ (call[c].cmd = "leader_up" => call[c].seen = {})
    BY <1>1 DEF CopyKnown, At, StopSteps
<1>4. /\ call[c].cmd = "leader_up" => Knows(call[c], t)
      /\ call[c].opened => call[c].cmd = "leader_up"
      /\ (call[c].cmd = "leader_down" \/ call[c].opened) /\ Head(todo[c]) # "kill_window" => Closed(call[c], t)
    BY <1>1 DEF SessionKnown, StopSteps
<1> QED
    BY <1>1, <1>2, <1>3, <1>4

\* _cleanup's and stop's first step: no docker run is left.
LEMMA KillWindowInv ==
    ASSUME IInv, NEW c \in Caller, KillWindow(c, call[c].task)
    PROVE  IInv'
<1>1. PICK t : t = call[c].task
    OBVIOUS
<1>2. ~Idle(c) /\ Head(todo[c]) = "kill_window" /\ Head(todo[c]) \in StopSteps
    BY DEF KillWindow, At, StopSteps
<1>3. /\ call[c] \in Calls /\ t \in Task /\ call[c].cmd \notin HubCommand /\ t # None
      /\ Pending(c, "configure") => Blank(t)
      /\ call[c].cmd = "leader_up" => call[c].seen = {} /\ Knows(call[c], t)
      /\ call[c].opened => call[c].cmd = "leader_up"
      /\ call[c].rescue # <<>> => call[c].cmd = "leader_up"
      /\ FilesTyped /\ CopiesHold
    BY <1>1, <1>2, StopCall
<1>4. UNCHANGED <<hubVars, ws, container, shell, calls>>
    BY DEF KillWindow
<1>5. ASSUME FilesTyped', CopiesHold', Elsewhere(t), NothingThere(t) => NothingThere(t)',
             NEW k \in Calls, Note(c, k), window'[t] = "none" \/ k.unclosed,
             k.cmd = call[c].cmd, k.task = t, k.force = call[c].force, k.rescue = call[c].rescue,
             k.seen = call[c].seen, k.misread = call[c].misread, k.opened = call[c].opened
      PROVE  IInv'
  <2>1. Blank(t) => Blank(t)'
    BY <1>4 DEF Blank
  <2>2. \A h \in Own[k.cmd] : Follows("kill_window", h) => Reaches(h, k)
    BY <1>1, <1>3, <1>5 DEF Follows, Reaches, Knows, StopSteps, AfterStop
  <2> QED
    BY <1>1, <1>2, <1>3, <1>4, <1>5, <2>1, <2>2, OnwardInv
<1>6. CASE window' = [window EXCEPT ![t] = "none"] /\ Proceed(c)
  <2>1. FilesTyped' /\ CopiesHold' /\ Elsewhere(t) /\ window'[t] = "none"
    BY <1>3, <1>4, <1>6 DEF FilesTyped, CopiesHold, Elsewhere, hubVars, PushedTo
  <2>2. NothingThere(t) => NothingThere(t)'
    BY <1>4, <2>1 DEF NothingThere
  <2>3. Note(c, call[c])
    BY <1>6 DEF Proceed, Note
  <2> QED
    BY <1>1, <1>3, <1>5, <2>1, <2>2, <2>3
<1>7. CASE UNCHANGED window /\ Note(c, [call[c] EXCEPT !.unclosed = TRUE])
  <2>1. FilesTyped' /\ CopiesHold' /\ Elsewhere(t)
    BY <1>4, <1>7, FilesKept
  <2>2. NothingThere(t) => NothingThere(t)'
    BY <1>4, <1>7 DEF NothingThere
  <2>3. PICK k : k = [call[c] EXCEPT !.unclosed = TRUE]
    OBVIOUS
  <2>4. /\ k \in Calls /\ k.cmd = call[c].cmd /\ k.task = t /\ k.force = call[c].force
        /\ k.rescue = call[c].rescue /\ k.seen = call[c].seen /\ k.misread = call[c].misread
        /\ k.opened = call[c].opened /\ k.unclosed /\ Note(c, k)
    BY <1>1, <1>3, <1>7, <2>3 DEF Calls
  <2> QED
    BY <1>5, <2>1, <2>2, <2>4
<1> QED
    BY <1>1, <1>6, <1>7 DEF KillWindow

\* docker stop.
LEMMA DockerStopInv ==
    ASSUME IInv, NEW c \in Caller, DockerStop(c, call[c].task)
    PROVE  IInv'
<1>1. PICK t, k : t = call[c].task /\ k = call[c]
    OBVIOUS
<1>2. ~Idle(c) /\ Head(todo[c]) = "docker_stop" /\ Head(todo[c]) \in StopSteps
    BY DEF DockerStop, At, StopSteps
<1>3. /\ k \in Calls /\ t \in Task /\ k.cmd \notin HubCommand /\ t # None
      /\ Pending(c, "configure") => Blank(t)
      /\ k.cmd = "leader_up" => k.seen = {} /\ Knows(k, t)
      /\ k.opened => k.cmd = "leader_up"
      /\ k.rescue # <<>> => k.cmd = "leader_up"
      /\ (k.cmd = "leader_down" \/ k.opened) /\ Head(todo[c]) # "kill_window" => Closed(k, t)
      /\ FilesTyped /\ CopiesHold
    BY <1>1, <1>2, StopCall
<1>4. UNCHANGED <<hubVars, ws, shell, calls>> /\ Note(c, k)
    BY <1>1 DEF DockerStop, Proceed, Note
<1>5. /\ FilesTyped' /\ CopiesHold' /\ Elsewhere(t)
      /\ NothingThere(t) => NothingThere(t)'
      /\ window[t] = "none" => window'[t] = "none"
  <2>1. CASE /\ container[t] \in {"running", "adrift"} /\ container' = [container EXCEPT ![t] = "exited"]
             /\ window' = [window EXCEPT ![t] = Attached(t)]
    <3>1. Attached(t) \in {"none", "run", "created", "attached"} /\ (window[t] = "none" => Attached(t) = "none")
      BY <1>3 DEF FilesTyped, Attached
    <3>2. FilesTyped' /\ container'[t] = "exited" /\ window'[t] = Attached(t) /\ Elsewhere(t)
      BY <1>3, <1>4, <2>1, <3>1 DEF FilesTyped, Elsewhere
    <3>3. CopiesHold'
      BY <1>3, <1>4, <3>2 DEF CopiesHold, Elsewhere, hubVars, PushedTo
    <3> QED
      BY <2>1, <3>1, <3>2, <3>3 DEF NothingThere
  <2>2. CASE UNCHANGED <<window, container>>
    BY <1>4, <2>2, FilesKept DEF NothingThere
  <2> QED
    BY <1>1, <2>1, <2>2 DEF DockerStop
<1>6. Blank(t) => Blank(t)'
    BY <1>4 DEF Blank
<1>7. \A h \in Own[k.cmd] : Follows("docker_stop", h) => Reaches(h, k)
    BY <1>1, <1>2, <1>3, <1>5, <1>6 DEF Follows, Reaches, Knows, Closed, StopSteps, AfterStop
<1> QED
    BY <1>1, <1>2, <1>3, <1>4, <1>5, <1>6, <1>7, OnwardInv

\* docker rm -f: nothing is left of the session, or the call knows it failed.
LEMMA DockerRmInv ==
    ASSUME IInv, NEW c \in Caller, DockerRm(c, call[c].task)
    PROVE  IInv'
<1>1. PICK t : t = call[c].task
    OBVIOUS
<1>2. ~Idle(c) /\ Head(todo[c]) = "docker_rm" /\ Head(todo[c]) \in StopSteps
    BY DEF DockerRm, At, StopSteps
<1>3. /\ call[c] \in Calls /\ t \in Task /\ call[c].cmd \notin HubCommand /\ t # None
      /\ Pending(c, "configure") => Blank(t)
      /\ call[c].cmd = "leader_up" => call[c].seen = {} /\ Knows(call[c], t)
      /\ call[c].opened => call[c].cmd = "leader_up"
      /\ call[c].rescue # <<>> => call[c].cmd = "leader_up"
      /\ (call[c].cmd = "leader_down" \/ call[c].opened) /\ Head(todo[c]) # "kill_window" => Closed(call[c], t)
      /\ FilesTyped /\ CopiesHold
    BY <1>1, <1>2, StopCall
<1>4. UNCHANGED <<hubVars, ws, shell, calls>>
    BY DEF DockerRm
<1>5. Blank(t) => Blank(t)'
    BY <1>4 DEF Blank
<1>6. "there" \notin Own["leader_up"]
    BY DEF Own, ProvisionSteps, HubSteps, StartSteps, StopSteps
<1>7. CASE /\ container' = [container EXCEPT ![t] = "none"] /\ window' = [window EXCEPT ![t] = Attached(t)]
           /\ Proceed(c)
  <2>1. Attached(t) \in {"none", "run", "created", "attached"} /\ (window[t] = "none" => Attached(t) = "none")
    BY <1>3 DEF FilesTyped, Attached
  <2>2. FilesTyped' /\ container'[t] = "none" /\ window'[t] = Attached(t) /\ Elsewhere(t)
    BY <1>3, <1>4, <1>7, <2>1 DEF FilesTyped, Elsewhere
  <2>3. CopiesHold'
    BY <1>3, <1>4, <2>2 DEF CopiesHold, Elsewhere, hubVars, PushedTo
  <2>4. NothingThere(t) => NothingThere(t)'
    BY <2>1, <2>2 DEF NothingThere
  <2>5. PICK k : k = call[c] /\ Note(c, k)
    BY <1>7 DEF Proceed, Note
  <2>6. /\ k.task = t /\ k.cmd \notin HubCommand /\ t # None
        /\ k.cmd = "leader_up" => k.seen = {} /\ (k.opened \/ k.misread \/ NothingThere(t)')
        /\ k.opened => k.cmd = "leader_up"
        /\ k.cmd = "leader_down" \/ k.opened => window'[t] = "none" \/ k.unclosed
    BY <1>1, <1>2, <1>3, <2>1, <2>2, <2>4, <2>5 DEF Knows, Closed
  <2>7. \A h \in Own[k.cmd] : Follows("docker_rm", h) => Reaches(h, k)
    BY <1>6, <2>2, <2>6 DEF Follows, Reaches, StopSteps, AfterStop
  <2> QED
    BY <1>1, <1>2, <1>3, <1>4, <1>5, <2>2, <2>3, <2>5, <2>7, OnwardInv
<1>8. CASE UNCHANGED <<window, container>> /\ Note(c, [call[c] EXCEPT !.failed = TRUE])
  <2>1. PICK k : k = [call[c] EXCEPT !.failed = TRUE]
    OBVIOUS
  <2>2. /\ k \in Calls /\ k.cmd = call[c].cmd /\ k.task = t /\ k.force = call[c].force /\ k.failed
        /\ k.rescue = call[c].rescue /\ k.opened = call[c].opened /\ k.seen = call[c].seen /\ Note(c, k)
        /\ k.misread = call[c].misread /\ k.unclosed = call[c].unclosed
    BY <1>1, <1>3, <1>8, <2>1 DEF Calls
  <2>3. NothingThere(t) => NothingThere(t)'
    BY <1>8 DEF NothingThere
  <2>4. /\ k.task = t /\ k.cmd \notin HubCommand /\ t # None /\ k.failed
        /\ k.cmd = "leader_up" => k.seen = {} /\ (k.opened \/ k.misread \/ NothingThere(t)')
        /\ k.opened => k.cmd = "leader_up"
        /\ k.cmd = "leader_down" \/ k.opened => window'[t] = "none" \/ k.unclosed
    BY <1>1, <1>2, <1>3, <1>8, <2>2, <2>3 DEF Knows, Closed
  <2>5. \A h \in Own[k.cmd] : Follows("docker_rm", h) => Reaches(h, k)
    BY <1>6, <2>4 DEF Follows, Reaches, StopSteps, AfterStop
  <2> QED
    BY <1>1, <1>2, <1>3, <1>4, <1>5, <1>8, <2>2, <2>5, FilesKept, OnwardInv
<1> QED
    BY <1>1, <1>7, <1>8 DEF DockerRm

----------------------------------------------------------------------------
\* A command begins.

\* A command begins; its Maintainer has waited for the last one on the task.
LEMMA BeginInv ==
    ASSUME IInv, NEW c \in Caller, NEW cmd \in DOMAIN Steps, NEW t \in Task \cup {None},
           NEW force \in BOOLEAN, NEW seed \in BOOLEAN, Begin(c, cmd, t, force, seed)
    PROVE  IInv'
<1>1. HubTyped /\ FilesTyped /\ CopiesHold /\ (daemon => hook.exec)
    BY TypeParts DEF IInv
<1>2. UNCHANGED <<hubVars, ws, window, container, shell>> /\ calls < MaxCalls /\ calls' = calls + 1
    BY DEF Begin, sessions
<1>3. /\ HubTyped' /\ UNCHANGED <<hook, daemon, pushed>>
      /\ FilesTyped' /\ CopiesHold'
  <2>1. HubTyped' /\ UNCHANGED <<hook, daemon, pushed>>
    BY <1>1, <1>2 DEF HubTyped, hubVars
  <2>2. calls' \in 0..MaxCalls
    BY <1>1, <1>2, LifecycleAssumption DEF FilesTyped
  <2> QED
    BY <1>1, <1>2, <2>1, <2>2 DEF FilesTyped, CopiesHold, PushedTo
<1>4. \A u \in Task : Drift(u)
    BY <1>2, <1>3 DEF Drift, Blank, Commits, PushedTo, NothingThere
<1>5. IF cmd \in HubCommand THEN t = None ELSE t \in Task /\ Waits(t)
    BY DEF Begin
<1>6. cmd \in HubCommand <=> t = None
    BY <1>5, HubAssumption
<1>7. PICK K : K = IF t = None THEN {} ELSE Commits(t)
    OBVIOUS
<1>8. K \in SUBSET Commit
  <2>1. t # None => ws[t] \in WorkingCopy \cup {None}
    BY <1>1 DEF FilesTyped
  <2> QED
    BY <1>7, <2>1 DEF WorkingCopy, Commits
<1>9. PICK list, k : /\ list = Steps[cmd] /\ Goto(c, list, k)
                     /\ k = [NoCall EXCEPT !.cmd = cmd, !.task = t, !.force = force, !.seed = seed, !.seen = K]
    BY <1>7 DEF Begin
<1>10. /\ Linked(list) /\ list # <<>> /\ \A i \in 1..Len(list) : list[i] \in Own[cmd]
       /\ Head(list) = IF cmd \in {"workspace_create", "leader_up"} THEN "exists"
                       ELSE IF cmd = "workspace_rm" THEN "there"
                       ELSE IF cmd = "leader_down" THEN "kill_window"
                       ELSE IF cmd = "hub_init" THEN "populated"
                       ELSE IF cmd = "hub_serve" THEN "open_hook"
                       ELSE IF cmd = "hub_stop_daemon" THEN "windows"
                       ELSE IF cmd = "container_stop" THEN "docker_stop" ELSE "docker_rm"
       /\ cmd \in DOMAIN Own
    BY <1>9, Programs
<1>11. /\ k \in Calls /\ k.cmd = cmd /\ k.task = t /\ k.force = force /\ k.rescue = <<>>
       /\ k.seen = K /\ ~k.opened
    BY <1>8, <1>9, <1>10 DEF NoCall, Calls
<1>12. \/ cmd \in {"workspace_create", "leader_up"}
       \/ \A i \in 1..Len(list) : list[i] \notin {"configure", "ensure"}
  <2>1. ASSUME cmd \notin {"workspace_create", "leader_up"}
        PROVE  "configure" \notin Own[cmd] /\ "ensure" \notin Own[cmd]
    BY <2>1, <1>10 DEF Own, HubSteps, StopSteps, RemovalSteps, DaemonSteps
  <2> QED
    BY <1>10, <2>1
<1>13. (\E i \in 1..Len(list) : list[i] = "ensure") => \E i \in 1..Len(list) : list[i] = "look"
  <2>1. "ensure" \notin Own["workspace_create"]
    BY DEF Own, ProvisionSteps, HubSteps
  <2>2. cmd = "leader_up" => list = Up
    BY <1>9 DEF Steps
  <2> QED
    BY <1>10, <1>12, <2>1, <2>2, UpList
<1>14. Arrives(list, k)
  <2>1. cmd \in {"workspace_create", "leader_up"} => K \subseteq Commits(t)'
    <3>1. cmd \in {"workspace_create", "leader_up"} => t # None
      BY <1>6 DEF HubCommand
    <3> QED
      BY <1>2, <1>7, <3>1 DEF Commits
  <2>2. Reaches(Head(list), k)
    BY <1>6, <1>10, <1>11, <2>1 DEF Reaches, StopSteps, AfterStop
  <2> QED
    BY <1>10, <1>11, <1>12, <1>13, <2>2 DEF Arrives
<1>15. \A d \in Caller \ {c} : k.task \in Task /\ ~Idle(d) => call[d].task # k.task
    BY <1>5, <1>11, HubAssumption DEF Waits
<1>16. k.force => k.cmd \in Forcible
    BY <1>11 DEF Begin
<1> QED
    BY <1>1, <1>3, <1>4, <1>9, <1>10, <1>11, <1>14, <1>15, <1>16, ArrivalInv

----------------------------------------------------------------------------
\* Around the calls.

\* docker run, the end of a container's command, a commit of the Leader.
LEMMA DockerInv ==
    ASSUME IInv, NEW t \in Task,
           DockerCreate(t) \/ DockerStart(t) \/ CommandEnds(t) \/ \E k \in Commit : LeaderCommits(t, k),
           UNCHANGED <<hubVars, todo, call, shell, calls>>
    PROVE  IInv'
<1>1. HubTyped /\ FilesTyped /\ CopiesHold /\ (daemon => hook.exec)
    BY TypeParts DEF IInv
<1>2. HubTyped' /\ UNCHANGED <<hook, daemon, pushed>>
    BY <1>1 DEF HubTyped, hubVars
<1>3. /\ ws[t] \in WorkingCopy \cup {None}
      /\ window[t] \in {"none", "run", "created", "attached"}
      /\ container[t] \in {"none", "created", "running", "adrift", "exited"}
    BY <1>1 DEF FilesTyped
<1>4. ASSUME NEW w \in WorkingCopy \cup {None}, NEW x \in {"none", "run", "created", "attached"},
             NEW y \in {"none", "created", "running", "adrift", "exited"},
             ws' = [ws EXCEPT ![t] = w], window' = [window EXCEPT ![t] = x], container' = [container EXCEPT ![t] = y],
             y = "running" => w # None,
             ws[t] # None => w # None,
             Blank(t) => w = None \/ w.branch = None,
             w # None /\ w.hubRef # None => ws[t] # None /\ w.hubRef = ws[t].hubRef,
             ~Blank(t) => w # None /\ w.branch # None /\ ws[t].branch \subseteq w.branch,
             window[t] = "none" => x = "none",
             NothingThere(t) => y = "none"
      PROVE  IInv'
  <2>1. w # None /\ w.hubRef # None => w.hubRef \subseteq PushedTo(t)
    BY <1>1, <1>4 DEF CopiesHold
  <2>2. /\ FilesTyped' /\ CopiesHold' /\ Elsewhere(t)
        /\ ws'[t] = w /\ window'[t] = x /\ container'[t] = y
    <3>1. shell' \in BOOLEAN /\ UNCHANGED <<hubVars, calls>>
      BY <1>1 DEF FilesTyped
    <3> QED
      BY <1>4, <2>1, <3>1, SessionSet
  <2>3. Drift(t)
    <3>1. Blank(t) => Commits(t) = {}
      BY DEF Blank, Commits
    <3>2. (Blank(t) => Blank(t)') /\ (NothingThere(t) => NothingThere(t)')
      BY <1>4, <2>2 DEF Blank, NothingThere
    <3>3. ~Blank(t) => Commits(t) = ws[t].branch /\ Commits(t)' = w.branch
      BY <1>4, <2>2 DEF Blank, Commits
    <3> QED
      BY <1>2, <1>4, <2>2, <3>1, <3>2, <3>3 DEF Drift, PushedTo
  <2>4. \A u \in Task : Drift(u)
    <3>1. \A u \in Task \ {t} : Drift(u)
      BY <1>2, <2>2 DEF Elsewhere, Drift, Blank, Commits, PushedTo, NothingThere
    <3> QED
      BY <2>3, <3>1
  <2> QED
    BY <1>1, <1>2, <2>2, <2>4, WorldInv
<1>5. ws = [ws EXCEPT ![t] = ws[t]] /\ window = [window EXCEPT ![t] = window[t]]
      /\ container = [container EXCEPT ![t] = container[t]]
    BY <1>1 DEF FilesTyped
<1>6. CASE DockerCreate(t)
  <2>1. PICK w, x, y : /\ w = ws[t]
                       /\ x = (IF container[t] = "none" THEN "created" ELSE "none")
                       /\ y = (IF container[t] = "none" THEN "created" ELSE container[t])
    OBVIOUS
  <2>2. /\ window[t] = "run" /\ ws' = [ws EXCEPT ![t] = w]
        /\ window' = [window EXCEPT ![t] = x] /\ container' = [container EXCEPT ![t] = y]
    BY <1>5, <1>6, <2>1 DEF DockerCreate
  <2> QED
    BY <1>1, <1>3, <1>4, <2>1, <2>2 DEF Blank, NothingThere, CopiesHold
<1>7. CASE DockerStart(t)
  <2>1. CASE container[t] = "created"
    <3>1. PICK w, x, y : w = (IF ws[t] = None THEN Husk ELSE ws[t]) /\ x = "attached" /\ y = "running"
      OBVIOUS
    <3>2. /\ window[t] = "created" /\ ws' = [ws EXCEPT ![t] = w]
          /\ window' = [window EXCEPT ![t] = x] /\ container' = [container EXCEPT ![t] = y]
      BY <1>5, <1>7, <2>1, <3>1 DEF DockerStart
    <3>3. Husk \in WorkingCopy /\ Husk # None /\ Husk.branch = None /\ Husk.hubRef = None
      BY LifecycleAssumption DEF Husk, WorkingCopy
    <3> QED
      BY <1>3, <1>4, <3>1, <3>2, <3>3 DEF Blank, NothingThere
  <2>2. CASE container[t] # "created"
    <3>1. PICK w, x, y : w = ws[t] /\ x = "none" /\ y = container[t]
      OBVIOUS
    <3>2. /\ ws' = [ws EXCEPT ![t] = w]
          /\ window' = [window EXCEPT ![t] = x] /\ container' = [container EXCEPT ![t] = y]
      BY <1>5, <1>7, <2>2, <3>1 DEF DockerStart
    <3> QED
      BY <1>1, <1>3, <1>4, <3>1, <3>2 DEF Blank, NothingThere, CopiesHold
  <2> QED
    BY <2>1, <2>2
<1>8. CASE CommandEnds(t)
  <2>1. PICK w, x, y : w = ws[t] /\ x = Attached(t) /\ y = "exited"
    OBVIOUS
  <2>2. /\ container[t] \in {"running", "adrift"} /\ ws' = [ws EXCEPT ![t] = w]
        /\ window' = [window EXCEPT ![t] = x] /\ container' = [container EXCEPT ![t] = y]
    BY <1>5, <1>8, <2>1 DEF CommandEnds
  <2>3. x \in {"none", "run", "created", "attached"} /\ (window[t] = "none" => x = "none")
    BY <1>3, <2>1 DEF Attached
  <2> QED
    BY <1>3, <1>4, <2>1, <2>2, <2>3 DEF Blank, NothingThere
<1>9. ASSUME NEW k \in Commit, LeaderCommits(t, k)
      PROVE  IInv'
  <2>1. PICK w, x, y : w = [ws[t] EXCEPT !.branch = @ \cup {k}] /\ x = window[t] /\ y = container[t]
    OBVIOUS
  <2>2. /\ container[t] = "running" /\ ws[t].branch # None /\ ws' = [ws EXCEPT ![t] = w]
        /\ window' = [window EXCEPT ![t] = x] /\ container' = [container EXCEPT ![t] = y]
    BY <1>5, <1>9, <2>1 DEF LeaderCommits
  <2>3. ws[t] # None /\ ws[t] \in WorkingCopy /\ ~Blank(t)
    BY <1>1, <1>3, <2>2 DEF CopiesHold, Blank
  <2>4. ws[t].branch \in SUBSET Commit
    BY <2>2, <2>3 DEF WorkingCopy
  <2>5. /\ w \in WorkingCopy /\ w # None /\ w.branch = ws[t].branch \cup {k} /\ w.hubRef = ws[t].hubRef
        /\ w.branch # None
    BY <2>1, <2>3, <2>4, LifecycleAssumption DEF WorkingCopy
  <2> QED
    BY <1>3, <1>4, <2>1, <2>2, <2>3, <2>5 DEF NothingThere
<1> QED
    BY <1>6, <1>7, <1>8, <1>9

\* A push, and the end of the daemon.
LEMMA DaemonInv ==
    ASSUME IInv, UNCHANGED <<ws, sessions, calls>>,
           \/ \E t \in Task : LeaderPushes(t)
           \/ ReceiveMain
           \/ DaemonDies
    PROVE  IInv'
<1>1. HubTyped /\ FilesTyped /\ CopiesHold /\ (daemon => hook.exec)
    BY TypeParts DEF IInv
<1>2. UNCHANGED <<ws, window, container, shell, calls>>
    BY DEF sessions
<1>3. FilesTyped'
    BY <1>1, <1>2 DEF FilesTyped
<1>4. ASSUME NEW t \in Task, LeaderPushes(t)
      PROVE  IInv'
  <2>1. PICK K : K = ws[t].branch
    OBVIOUS
  <2>2. /\ container[t] = "running" /\ K # None /\ PushedTo(t) \subseteq K
        /\ pushed' = [pushed EXCEPT ![t] = K] /\ UNCHANGED <<hub, main, hook, daemon, pidfile, todo, call>>
    BY <1>4, <2>1 DEF LeaderPushes, Receive, service
  <2>3. ws[t] \in WorkingCopy
    BY <1>1, <2>2 DEF CopiesHold, FilesTyped
  <2>4. K \in SUBSET Commit
    BY <2>1, <2>2, <2>3 DEF WorkingCopy
  <2>5. HubTyped'
    BY <1>1, <2>2, <2>4 DEF HubTyped
  <2>6. pushed'[t] = K /\ \A u \in Task \ {t} : pushed'[u] = pushed[u]
    BY <1>1, <2>2 DEF HubTyped
  <2>7. \A u \in Task : PushedTo(u) \subseteq PushedTo(u)'
    BY <2>2, <2>6 DEF PushedTo
  <2>8. CopiesHold'
    BY <1>1, <1>2, <2>7 DEF CopiesHold
  <2>9. \A u \in Task : Drift(u)
    BY <1>2, <2>7 DEF Drift, Blank, Commits, NothingThere
  <2> QED
    BY <1>1, <1>3, <2>2, <2>5, <2>8, <2>9, WorldInv
<1>5. CASE ReceiveMain
  <2>1. UNCHANGED <<hub, pushed, hook, daemon, pidfile, todo, call>> /\ main' = "pushed"
    BY <1>5 DEF ReceiveMain, service
  <2>2. HubTyped'
    BY <1>1, <2>1 DEF HubTyped
  <2> QED
    BY <1>1, <1>2, <2>1, <2>2, FilesStand, WorldInv
<1>6. CASE DaemonDies
  <2>1. UNCHANGED <<hub, main, pushed, hook, todo>> /\ ~daemon' /\ daemon' = FALSE /\ pidfile' \in {pidfile, "other"}
        /\ DaemonEnds
    BY <1>6 DEF DaemonDies, DaemonEnds, repository
  <2>2. HubTyped'
    BY <1>1, <2>1 DEF HubTyped
  <2> QED
    BY <1>1, <1>2, <2>1, <2>2, FilesStand, WorldInv
<1> QED
    BY <1>4, <1>5, <1>6

\* What runs around the calls keeps the invariant.
LEMMA WorldStepInv ==
    ASSUME IInv, World
    PROVE  IInv'
<1>1. CASE /\ \E t \in Task : \/ DockerCreate(t) \/ DockerStart(t) \/ CommandEnds(t)
                              \/ \E k \in Commit : LeaderCommits(t, k)
           /\ UNCHANGED <<hubVars, todo, call, shell, calls>>
    BY <1>1, DockerInv
<1>2. CASE /\ \/ \E t \in Task : LeaderPushes(t)
              \/ ReceiveMain
              \/ DaemonDies
           /\ UNCHANGED <<ws, sessions, calls>>
    BY <1>2, DaemonInv
<1>3. CASE shell' = FALSE /\ UNCHANGED <<hubVars, todo, call, ws, window, container, calls>>
  <2>1. HubTyped /\ FilesTyped /\ CopiesHold /\ (daemon => hook.exec)
    BY TypeParts DEF IInv
  <2>2. HubTyped' /\ UNCHANGED <<hook, daemon, pushed>>
    BY <1>3, <2>1 DEF HubTyped, hubVars
  <2>3. FilesTyped' /\ CopiesHold'
    BY <1>3, <2>1, <2>2 DEF FilesTyped, CopiesHold, PushedTo
  <2>4. \A u \in Task : Drift(u)
    BY <1>3, <2>2 DEF Drift, Blank, Commits, PushedTo, NothingThere
  <2> QED
    BY <1>3, <2>1, <2>2, <2>3, <2>4, WorldInv
<1> QED
    BY <1>1, <1>2, <1>3 DEF World

\* Nothing exists and no call runs.
LEMMA InitInv == Init => IInv
<1> SUFFICES ASSUME Init PROVE IInv
    OBVIOUS
<1>1. /\ HubTyped /\ FilesTyped
  <2>1. pushed \in [Task -> (SUBSET Commit) \cup {None}]
    BY DEF Init, HubInit
  <2>2. HubTyped
    BY <2>1 DEF Init, HubInit, HubTyped
  <2>3. ws \in [Task -> WorkingCopy \cup {None}]
    BY DEF Init
  <2>4. window \in [Task -> {"none", "run", "created", "attached"}]
    BY DEF Init
  <2>5. container \in [Task -> {"none", "created", "running", "adrift", "exited"}]
    BY DEF Init
  <2>6. shell \in BOOLEAN /\ calls \in 0..MaxCalls
    <3>1. MaxCalls \in Nat
      BY LifecycleAssumption
    <3>2. 0 \in 0..MaxCalls
      BY <3>1
    <3>3. shell \in BOOLEAN
      BY DEF Init
    <3>4. calls = 0
      BY DEF Init
    <3> QED
      BY <3>2, <3>3, <3>4
  <2> QED
    BY <2>2, <2>3, <2>4, <2>5, <2>6 DEF FilesTyped
<1>2. CallsTyped /\ \A c \in Caller : Idle(c) /\ call[c] = NoCall
    BY NoCallIn DEF Init, HubInit, CallsTyped, Idle
<1>3. CopiesHold /\ OneCommand /\ (daemon => hook.exec)
    BY <1>2 DEF Init, HubInit, CopiesHold, OneCommand
<1>4. ASSUME NEW c \in Caller
      PROVE  Stage(c)
  <2>1. Idle(c) /\ call[c] = NoCall /\ todo[c] = <<>>
    BY <1>2 DEF Idle
  <2>2. \A i \in 1..Len(todo[c]) : FALSE
    BY <2>1
  <2> QED
    BY <2>1, <2>2, NoCallIn, ShortLists DEF Stage, Lawful, HookFirst, At, Pending
<1> QED
    BY <1>1, <1>2, <1>3, <1>4, TypeParts DEF IInv

\* Every step of a call keeps the invariant.
LEMMA RunInv ==
    ASSUME IInv, NEW c \in Caller, Run(c)
    PROVE  IInv'
<1>1. CASE TaskStep(c, call[c].task)
    BY <1>1, ExistsInv, CloneInv, ConfigureInv, ThereInv, FetchInv, CountInv, RemoveInv, LookInv,
       NewWindowInv, KillWindowInv, DockerStopInv, DockerRmInv DEF TaskStep
<1> QED
    BY <1>1, EnsureInv, StartCaptureInv, HubStepInv DEF Run

\* So does every step.
LEMMA NextInv == IInv /\ [Next]_vars => IInv'
<1> SUFFICES ASSUME IInv, [Next]_vars PROVE IInv'
    OBVIOUS
<1>1. CASE World
    BY <1>1, WorldStepInv
<1>2. ASSUME NEW c \in Caller, Start(c)
      PROVE  IInv'
    BY <1>2, BeginInv DEF Start
<1>3. ASSUME NEW c \in Caller, Run(c)
      PROVE  IInv'
    BY <1>3, RunInv
<1>4. CASE UNCHANGED vars
  <2>1. HubTyped /\ FilesTyped /\ CopiesHold /\ (daemon => hook.exec)
    BY TypeParts DEF IInv
  <2>2. UNCHANGED <<hubVars, todo, call, ws, window, container, shell, calls>>
    BY <1>4 DEF vars, sessions
  <2>3. HubTyped' /\ UNCHANGED <<hook, daemon, pushed>>
    BY <2>1, <2>2 DEF HubTyped, hubVars
  <2> QED
    BY <2>1, <2>2, <2>3, FilesStand, WorldInv
<1> QED
    BY <1>1, <1>2, <1>3, <1>4 DEF Next

\* Every reachable state satisfies the invariant.
THEOREM Invariance == Spec => []IInv
<1>1. Init => IInv
    BY InitInv
<1>2. IInv /\ [Next]_vars => IInv'
    BY NextInv
<1> QED
    BY <1>1, <1>2, PTL DEF Spec

----------------------------------------------------------------------------
\* Every variable of the hub and of the working copies holds one of the values
\* its declaration lists, whichever commands run, fail or are killed.
THEOREM TypesHold == Spec => []TypeOK
<1>1. IInv => TypeOK
    BY DEF IInv
<1> QED
    BY <1>1, Invariance, PTL

\* Whichever calls are killed and however init, serve, stop-daemon and the
\* daemon's own end interleave, a repository is never served whose hook git
\* would skip (hub.serve installs the gate before it spawns the daemon).
THEOREM HookServed == Spec => []ServedWithHook
<1>1. IInv => ServedWithHook
    BY DEF IInv, ServedWithHook, Serves
<1> QED
    BY <1>1, Invariance, PTL

\* A stop that gets to the working copy has left no window and no container of
\* the task but those that tmux or docker would not remove: whatever docker run
\* does meanwhile, it creates nothing behind it (leader.down, backend._cleanup).
THEOREM StopIsComplete == Spec => []StopLeavesNothing
<1>1. IInv => StopLeavesNothing
  <2> SUFFICES ASSUME IInv, NEW c \in Caller, ~Idle(c), PastStop(c)
               PROVE  /\ window[call[c].task] = "none" \/ call[c].unclosed
                      /\ container[call[c].task] = "none" \/ call[c].failed \/ call[c].unclosed
    BY DEF StopLeavesNothing
  <2>1. SessionKnown(c)
    BY Running
  <2> QED
    BY <2>1 DEF SessionKnown, Closed, Removed, PastStop, AfterStop
<1> QED
    BY <1>1, Invariance, PTL

\* The cleanup of an up that failed destroys no session that was there before
\* it, unless its look was not shown it: it opened the window itself, or there
\* is nothing (backend.start).
THEOREM CleanupSparesOthers == Spec => []CleanupIsOwn
<1>1. IInv => CleanupIsOwn
  <2> SUFFICES ASSUME IInv, NEW c \in Caller, Cleans(c), ~call[c].misread
               PROVE  call[c].opened \/ NothingThere(call[c].task)
    BY DEF CleanupIsOwn
  <2>1. SessionKnown(c)
    BY Running DEF Cleans
  <2> QED
    BY <2>1 DEF SessionKnown, Cleans, Knows, StopSteps
<1> QED
    BY <1>1, Invariance, PTL

\* What a copy has, only its removal takes away: a clone finds no copy, and a
\* checkout no task branch.
LEMMA OnlyRemoval ==
    ASSUME IInv, Next, NEW t \in Task, NEW k \in Commits(t), k \notin Commits(t)'
    PROVE  \E c \in Caller : call[c].task = t /\ Remove(c, t)
<1>1. ws[t] # None /\ ws[t].branch # None /\ k \in ws[t].branch
    BY DEF Commits
<1>2. ws[t] \in WorkingCopy /\ FilesTyped
    BY <1>1, TypeParts DEF IInv, FilesTyped
<1>3. ~(ws'[t] # None /\ ws'[t].branch # None /\ k \in ws'[t].branch)
    BY DEF Commits
<1>4. ws' # ws
    BY <1>1, <1>3
<1>5. ~World
  <2> SUFFICES ASSUME World PROVE FALSE
      OBVIOUS
  <2>1. PICK u \in Task : DockerCreate(u) \/ DockerStart(u) \/ CommandEnds(u) \/ \E j \in Commit : LeaderCommits(u, j)
    BY <1>4 DEF World
  <2>2. ~DockerCreate(u) /\ ~CommandEnds(u)
    BY <1>4 DEF DockerCreate, CommandEnds
  <2>3. ~DockerStart(u)
    BY <1>1, <1>2, <1>3 DEF DockerStart, FilesTyped
  <2>4. ASSUME NEW j \in Commit, LeaderCommits(u, j)
        PROVE  FALSE
    <3>1. CASE u # t
      BY <1>1, <1>2, <1>3, <2>4, <3>1 DEF LeaderCommits, FilesTyped
    <3>2. CASE u = t
      <4>1. PICK w : w = [ws[t] EXCEPT !.branch = @ \cup {j}]
        OBVIOUS
      <4>2. ws'[t] = w
        BY <1>2, <2>4, <3>2, <4>1 DEF LeaderCommits, FilesTyped
      <4>3. w \in [clone : BOOLEAN, branch : {ws[t].branch \cup {j}}, hubRef : {ws[t].hubRef}]
        BY <1>2, <4>1 DEF WorkingCopy
      <4>4. ws[t].branch \in SUBSET Commit
        BY <1>1, <1>2 DEF WorkingCopy
      <4>5. w \in WorkingCopy /\ w.branch = ws[t].branch \cup {j}
        BY <1>2, <4>3, <4>4 DEF WorkingCopy
      <4> QED
        BY <1>1, <1>3, <4>2, <4>4, <4>5, LifecycleAssumption
    <3> QED
      BY <3>1, <3>2
  <2> QED
    BY <2>1, <2>2, <2>3, <2>4
<1>6. ASSUME NEW c \in Caller
      PROVE  ~Start(c)
    BY <1>4 DEF Start, Begin
<1>7. PICK c \in Caller : Run(c)
    BY <1>5, <1>6 DEF Next
<1>8. TaskStep(c, call[c].task)
    BY <1>4, <1>7 DEF Run, Ensure, StartCapture, sessions
<1>9. PICK u : u = call[c].task
    OBVIOUS
<1>10. Clone(c, u) \/ Configure(c, u) \/ Fetch(c, u) \/ Remove(c, u)
    BY <1>4, <1>8, <1>9 DEF TaskStep, Exists, There, Count, Look, NewWindow, KillWindow, DockerStop, DockerRm
<1>11. u \in Task
  <2>1. At(c, "clone") \/ At(c, "configure") \/ At(c, "fetch") \/ At(c, "remove") \/ At(c, "compensate")
    BY <1>10 DEF Clone, Configure, Fetch, Remove
  <2>2. {"clone", "configure", "fetch", "remove", "compensate"} \subseteq StepName \ (HubSteps \cup DaemonSteps)
    BY DEF StepName, ProvisionSteps, RemovalSteps, HubSteps, DaemonSteps
  <2> QED
    BY <1>9, <2>1, <2>2, TaskCall
<1>12. u = t
    BY <1>1, <1>2, <1>3, <1>10, <1>11 DEF Clone, Configure, Fetch, Remove, FilesTyped
<1>13. ~Clone(c, u)
    BY <1>1, <1>4, <1>12 DEF Clone
<1>14. ~Configure(c, u)
  <2> SUFFICES ASSUME Configure(c, u) PROVE FALSE
      OBVIOUS
  <2>1. /\ At(c, "configure") /\ ~Idle(c) /\ Head(todo[c]) = "configure" /\ CopyKnown(c) /\ Lawful(c)
    BY AtStep DEF Configure
  <2>2. Pending(c, "configure")
    <3>1. Linked(todo[c]) /\ todo[c] # <<>>
      BY <2>1 DEF Lawful, Idle
    <3>2. Len(todo[c]) \in Nat \ {0} /\ Head(todo[c]) = todo[c][1]
      BY <3>1, ListTail
    <3> QED
      BY <2>1, <3>2 DEF Pending
  <2>3. Blank(t)
    BY <1>9, <1>12, <2>1, <2>2 DEF CopyKnown
  <2> QED
    BY <1>1, <2>3 DEF Blank
<1>15. ~Fetch(c, u)
  <2> SUFFICES ASSUME Fetch(c, u) PROVE FALSE
      OBVIOUS
  <2>1. PICK w : w = [ws[t] EXCEPT !.hubRef = pushed[t]]
    OBVIOUS
  <2>2. ws'[t] = w
    BY <1>2, <1>4, <1>11, <1>12, <2>1 DEF Fetch, FilesTyped
  <2>3. pushed[t] \in (SUBSET Commit) \cup {None}
    BY TypeParts DEF IInv, HubTyped
  <2>4. w \in WorkingCopy /\ w.branch = ws[t].branch
    BY <1>2, <2>1, <2>3 DEF WorkingCopy
  <2> QED
    BY <1>1, <1>3, <2>2, <2>4, LifecycleAssumption
<1> QED
    BY <1>9, <1>10, <1>12, <1>13, <1>14, <1>15

\* A commit the hub does not have is lost only by a removal that never vouched
\* for it: teardown's count vouches for what the hub has, and an up that gets
\* past its test of the directory has seen no commit (workspace.py, leader.py).
THEOREM CommitsAreKept == Spec => CommitsSurvive
<1> DEFINE Loss == \A t \in Task : \A k \in Unpushed(t) :
                       k \notin Commits(t)' => \E c \in Caller : Entitled(c, t, k)
<1>1. IInv /\ [Next]_vars => [Loss]_vars
  <2> SUFFICES ASSUME IInv, Next, NEW t \in Task, NEW k \in Unpushed(t), k \notin Commits(t)'
               PROVE  \E c \in Caller : Entitled(c, t, k)
      OBVIOUS
  <2>1. k \in Commits(t) /\ k \notin PushedTo(t)
    BY DEF Unpushed
  <2>2. PICK c \in Caller : call[c].task = t /\ Remove(c, t)
    BY <2>1, OnlyRemoval
  <2>3. At(c, "remove") \/ At(c, "compensate")
    BY <2>2 DEF Remove
  <2>4. ~Idle(c) /\ CopyKnown(c) /\ call[c] \in Calls /\ Lawful(c)
    BY <2>3, AtStep
  <2>5. At(c, "remove") => k \notin call[c].seen
    BY <2>1, <2>2, <2>4 DEF CopyKnown
  <2>6. At(c, "compensate") => k \notin call[c].seen
    <3>1. At(c, "compensate") => call[c].cmd = "leader_up" /\ ~At(c, "exists")
      BY <2>4, WhoseStep DEF At
    <3> QED
      BY <2>4, <3>1 DEF CopyKnown
  <2> QED
    BY <2>2, <2>3, <2>5, <2>6 DEF Entitled
<1> QED
    BY <1>1, Invariance, PTL DEF Spec, CommitsSurvive

=============================================================================
