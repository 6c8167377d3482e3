# A TLA+ verification of AXDT

AXDT (`src/WIP/axdt/`) drives AI agents through a document-driven development
workflow: specifications ("SoT" documents) live on `main`, a Leader agent works on a
milestone in a workspace of its own, a Watcher reviews, a human Maintainer decides. The
Python code is the machinery between them. This directory models it in TLA+, checks the
models with TLC and proves the central invariants with TLAPS.

## 1. The system

| component | state | operations | talks to |
|---|---|---|---|
| SoT gate `sot_gate/gate.py`, `models.py` | none (pure) | `evaluate_gate` | called by the controller |
| Merge controller `sot_gate/controller.py` | a lock, an append-only audit list | `evaluate`, `merge_if_green`, `audit_log` | six ports (`ports.py`) on the code host |
| GitHub ports `sot_gate/hosts/github.py` | none | skeleton, raises `NotImplementedError` | the controller |
| Milestone commit `progress/commit.py` | the git index, HEAD, the working tree | `plan_milestone`, `milestone_commit` | git, progress schema |
| Progress schema, lint, recovery `progress/` | none (files) | `pair_severity`, `wave_rollup`, `lint`, `reconstruct` | milestone commit, web |
| Workspaces and Leaders `infra/workspace.py`, `leader.py`, `backend.py` | clones, branches, tmux windows, containers | `provision`, `teardown`, `up`, `down`, `start`, `stop` | hub, git, tmux, docker |
| Hub `infra/hub.py` | the bare repository, its hook, the daemon | `init`, `serve`, `stop_daemon`, `install_gate` | workspaces push to it |
| Git host client `git_host/` | a cursor per wait | `open_pull_request`, `wait_for_decision` | the code host, polled |
| Agent runner `agent_runner/` | a session seen through its life and its state file, the last state, `_stop_requested` | `start_session`, `poll_state`, `send_prompt`, `send_when_idle`, `stop` | tmux, the agent's hooks |
| SoT lint `sot_lint/` | none (reads files) | `discover`, `load_document`, the checks C1 to C6, `main` | the SoT tree, which people edit |
| Watcher schedule `infra/cron.py`, protocol messages `protocol/`, roles, web viewer, command line | files, a crontab block | parsing, rendering, dispatch | mostly nothing |

What is hard in it:

* **Interleaving with a host nobody controls.** The controller decides from five port
  reads and acts with a sixth call; people push, comment, edit, approve, withdraw and
  lose roles between any two of them, and another caller may land in between.
* **Streams with edits, deletions and duplicates.** The gate must find the one decision
  that counts.
* **Failures half-way.** Every port call may raise; a merge may land and its answer be
  lost. The infrastructure code compensates by hand (`leader.up`).
* **Checked here, used there.** `milestone_commit` checks the index and commits the
  working tree; `teardown` checks for unpushed commits and removes a directory.
* **Waiting.** `wait_for_decision` and `send_when_idle` poll, with deadlines.

What makes each part correct:

* gate: GREEN exactly when reviews, decisions and approval of *this* content are there;
* controller: what lands is what was judged and approved; a landing is recorded; the
  lock is always given back; rounds repeat only because the head moved;
* milestone commit: what is committed is what was checked, measured on the two commits;
  terminal states never resume; the message tells the difference; nothing foreign is taken
  along;
* workspaces: nothing that was not pushed is lost without `force`; a failed `up` leaves
  nothing behind and destroys nothing that was there before; the hub is never served
  without its gate;
* git host client: a wait ends, with a decision of the awaited reviewer that is new, or
  by a timeout that hides none;
* agent runner: what Enter submits is one prompt, whole; it meets an idle session; a stop is
  no error; a wait ends;
* SoT lint: the exit code tells whether the SoT is complete, and what is charged is charged
  to the right file;
* progress functions: roll-up, severity and recovery agree with each other.

## 2. Modules

| module | models | how |
|---|---|---|
| `SotGate` | `gate.py`, the keys and records of `models.py` | one operator per helper, the early returns in the code's order; pure |
| `GateHost` | what the ports of `ports.py` read and write: PRs, review artifacts, decision stream, approvals, roles, ruleset, `main` | an action per thing that people, the review CI or the adapter can do; operators for what each port returns |
| `GateChannel` | gate and host together, without a controller: what `evaluate()` shows after any history | `ChannelSpec` over the host's actions |
| `MergeController` | `controller.py` composed with `GateHost` | one action per port call; every port call may also raise |
| `AuditedMain` | the promise of the controller, without how it is kept | abstract specification, implemented by `MergeController` |
| `ProgressSchema` | `progress/schema.py` | its tables and `wave_rollup` as operators |
| `ProgressTable` | what `lint.py`, `recover.py` and `commit.py` compute from one reading of the files | operators over tables of rows; pure |
| `ProgressBoard` | progress.md and the reports between milestones, edited by Maintainer and Leaders | compares the three readers with one another after any history of edits |
| `MilestoneCommit` | `milestone_commit` and `plan_milestone` over HEAD, index and working tree | one action per file read and git command; any may fail |
| `Hub` | `infra/hub.py`: the repository, its hook, the daemon and its pid file | a call is the list of its remaining steps; one action per git command or file operation |
| `LeaderLifecycle` | `workspace.py`, `backend.py`, `leader.py`, `container.py`, `tmux.py` over `Hub` | one action per command; docker, Leaders and the daemon run beside |
| `ReviewWait` | `git_host/client.py`, `models.py`, `parse_review` | one action per command of the host's CLI, each of which may fail; people act on the host between them |
| `AgentSession` | `agent_runner/runner.py`, `state.py`, the contract of `backend.py` | several runners on one session; one action per key, text or poll; the session and its hooks run beside |
| `SotText` | the two views of a body in `sot_lint/parser.py`; beside them code as CommonMark defines it, spans over line ends included | operators over lines of atoms; pure |
| `SotChecks` | `checks.py`, `registry.py` | one operator per check; pure |
| `SotLint` | `parser.discover`, `load_document`, `load_all`, `cli.run`, `cli.main` on a tree being written | one action per file read; what a complete SoT is, said once more without the checks |
| `GateChannelProofs`, `MergeControllerProofs`, `MilestoneCommitProofs`, `ProgressBoardProofs`, `LeaderLifecycleProofs`, `ReviewWaitProofs`, `AgentSessionProofs`, `SotLintProofs` | the module each is named after (those about the host are in `GateChannelProofs`) | theorems and proofs |
| `MCGateChannel`, `MCMergeController`, `MCProgressBoard`, `MCMilestoneCommit`, `MCLeaderLifecycle`, `MCReviewWait`, `MCAgentSession`, `MCSotLint` | | values of the constants for TLC |

### How state and actions correspond to the code

`MergeController` keeps `lock` for `self._lock`, `audit` for `_audit_log`, and per caller
the program counter `pc` (the next port call), `target` (the argument `pr`), `attempt`
(the loop variable, counted from 1) and `seen` (the `GateInputs` under construction).
`Acquire` is `with self._lock`; `VerifyRuleset` is the check that fails closed; the next
five actions are the five statements of `_build_inputs`, in their order; `Bracket` is the
second `read_pr_metadata` with the comparison of heads, `evaluate_gate` and the three
ways on; `MergeLands`, `MergeHeadMoved`, `MergeReplyLost` and `PortRaises` are the
outcomes of `merge_pull_request`; `RecordAudit` is `_record_audit`. `Leave` is every way
out of the `with` block. The value returned to the caller is left out: no later step of
the code reads it.

`GateHost` holds raw facts (who commented, who approved which content) and adds the roles
when a port reads them, as the ports' contracts say ("current role"). The host also does
what the gate's checks reckon with: it may hand a comment over twice, let a comment be
edited to name another finding or be deleted, and withdraw approvals at a push or not.

Data that the properties do not tell apart is abstracted. A landing key is a function of
the *content* that would land: the sensitive changes `main` already holds and the PR's
own at its head. The two keys digest different components (`keys.py`), so content has two
parts, what was `judged` and what was `swept`, and `JudgedPart` and `SweptPart` say what the
commits of a branch bring into each: a push may change neither key (a rebase, an edit
outside the components), one of them, or both, and so may another landing;
hashing is assumed free of collisions. A finding's number and digest are one id. The
value of a decision (accept, reject) is not modelled: `gate.py` does not read it, any
valid decision closes a finding. `edited` stands for `updated_at != created_at`, with no
regard to the resolution of the host's clock.

Two rules of the host's ruleset are part of the model because the code relies on them:
RS-C (a head never returns to an earlier commit) in `Push`, RS-A (only the controller
moves `main`) in the absence of any other action on `main`. RS-B (one standing approval of
somebody else) is in `RulesetAllows`, and is off whenever the live ruleset deviates.

`ProgressTable` takes a parsed progress.md for a sequence of rows and a report for its
frontmatter; what the parsers refuse is `Broken`, a missing file `None`. `lint.py`,
`recover.py` and `commit.py` each read reports with code of their own (`ReportCodes`,
`ReadCanonicalReport`, `Verified`), and each is translated on its own, so that they can be
compared. `ProgressBoard` has no program counter: the readers are pure, its actions are
the people's. An `Edit` is one step of `ALLOWED_TRANSITIONS`, a `Slip` a word that is no
state and its correction; `Milestone` is a whole `milestone_commit` that passes its checks.

`MilestoneCommit` takes `milestone_commit` apart. Its state is the commit at HEAD (`tip`,
with the events its message lists), the index and the working tree, each a function from
paths to contents; `pc` and `call` hold the local variables of the running call.
`ReadBase` is `git show HEAD:progress.md`, `ReadNew` the read of progress.md with
`diff_progress`, `CheckRows` the first three refusals (lint reads progress.md once more),
`PickPaths` the test for existing reports, `StagePaths` `git add`, `CheckReports` the overclaim
loop, `FormatMessage` the `ValueError`s of `format_milestone_message`, `Unstage` `git reset`,
`DiffCached` and `Commit` the end. `Abort` is a git command that fails or the death of the
process at any of them: nothing is undone. Three git commands run with `check=False`, and the
call goes on when they fail: `git show HEAD:progress.md` is then taken for a HEAD without
one (`misread`: the base is empty), `git show :report` for a report that is not done
(`unread`), `git diff --cached --quiet` for a difference. Of git the model has what the code relies on:
`git add` of several paths stages all or, if one matches nothing, none; `git commit -- paths`
commits HEAD with these paths from the *working tree*, stages them, and leaves the rest
of the index; `git commit --allow-empty` commits the index. A path that nobody knows
has content `None`, so that removing a file and staging its removal are ordinary edits.

Beside the call the working copy changes: files that are neither progress.md nor a
report at any time, those two only between calls. The code takes no lock; what justifies
this is the rule of the project that progress.md has a single writer, the
Maintainer, whose working copy this is and who waits for the command to end. The
reports in it arrive by the Maintainer's own merges.

In `Hub` and `LeaderLifecycle` a procedure is a sequence of step names (`InitHub`, `ServeHub`,
`Provision`, `Teardown`, `Up`, ...), composed as the code composes its calls, and `todo[c]` is
what a call has left: an early return skips the rest of a procedure (`Skip`), an exception
replaces the list by what the except clauses on the way do (`Raise`, the field `rescue`), a
death empties it (`Abort`). `call[c]` holds arguments and locals, and five fields that
the code does not have and no guard reads: `seen`, the commits a removal answers for
(those there when the call began; after `rev-list`, those it counted; none when the removal
is forced or `rev-list` failed), `opened` (the code's `_win`), `misread` (the look was not
shown what is there), and two exit codes that the code ignores, `unclosed` of `list-windows` or
`kill-window` and `failed` of `docker rm`. The commands that run with `check=False` may fail in
silence: `list-windows` and `docker ps` then list nothing (`Look`), `kill-window` leaves the window
open (`KillWindow`), `docker stop` and `docker rm` the container, `git clone`, `git fetch` and
`has-session` have no effect, and the call goes on.

`Count` is `_has_unpushed` after its `git fetch`; `Look` the test at the head of `start`;
`Ensure` ends with the entry into its `try`, so it sets `rescue`. A working copy has the task
branch (`branch`, the commits over `main`, `None` before `git checkout -b`) and the branch
`hub/<id>` as last fetched (`hubRef`, `None` when it does not exist: `rev-list` then fails). A
`Husk` is a directory that is no clone. `hook` tells whether the hook is complete and
whether it is executable: git skips it without the bit, and an empty one accepts all. A
window is the tmux window of a task and, in its value, how far the `docker run` inside has
come: the call returns as soon as the window is open, and the container is created
and started later. Of docker and git the model has: a window that is closed takes the
docker client with it and not the container; a directory to be mounted is made when it
is missing; `git clone --mirror` refuses a directory that is not empty, `git init` does
not; a push that is no fast-forward is refused.

Two processes run any of the commands. Those about one task do not overlap, since one
Maintainer gives them and waits; the code takes no lock, and overlapping commands on one
task do destroy each other's sessions (section 5).

`ReviewWait` has the pull request and its reviews on the host, and of the client the
program counter `pc` and the locals of `wait_for_decision`: `cursor`, `errors`
(`consecutive_errors`, one counter for both loops, reset between them), `lastState`, and
`late` for the comparison with the deadline. `Create` and `View` are the two commands of
`open_pull_request`: the first may have effect and fail, and the caller then has no
handle. `CursorCaptured` and `CursorMissed` are the loop before the polls; `PollState`
and `PollReview` the two commands of a poll, between which people act; `PollMissed` a
failure of either; a view that is answered holds the reviews or, for a moment, none of them
(`Views`: `base.py` and the README of `git_host` admit it), for the cursor and for every poll; `CheckDeadline` the comparison at the end of a turn. A review is
appended to the stream, and its id is its place in it. A dismissed review stays in the
stream with another state (GitHub; read as a comment) or leaves it (the case that
`terminal_after` provides for). `asked`, `entered`, `known`, `polled`, `waits` and `blank` (the cursor
came from an empty view) are history.

`AgentSession` has one session: `phase` is what the agent in it does, `file` the state
file, `due` the record whose hook has not written yet, `line` whose texts stand in its
input line. Two processes drive it, each with an `AgentRunner` of its own (one has started
it, the other attached). `PollState` is `poll_state`, with its order of tests: started,
told to stop, alive, what was read; what was read is the file or nothing, because
`read_state` may fail. `Send` is the poll of `send_when_idle` or `send_prompt`, and
`ClearInput`, `SendText`, `Submit` are the steps after it, each of which may raise (`Fail`)
or be the last of its process (`ProcessDies`). External are the agent and its hooks, and
the two things that the docstring of `protocol/inject.py` demands of callers: a lock
around a send (`LockFree`) and looking for the effect of Enter before it is released
(`Observe`, `GiveUp`); the code of `inject` is a skeleton. `started`, `stop` and `last` are the
fields of the runner; `blind`, `sent`, `found` and `pending` are history.

In `SotText` a body is a sequence of lines and a line a sequence of atoms: an id, a
prefixed id, a word, a banned word, a placeholder, a run of backticks or tildes of some
length, a checkbox, a heading. What an atom spells is left out, so that `MaskFences` and
`MaskInlineCode` are the scanning of the code and nothing else: `Fences` is the open fence
after each line, `SpanEnds` the end of the last span up to each atom, as the two loops of the code
carry them along. What is code by CommonMark (`FencedLines`, `CodeSpans`) is said beside
them without a scan, as a set of blocks and, over the whole body, a set of spans: a span may
run over the line ends of its paragraph, which ends at an empty line, a fence, a heading or a
box (`Continues`). The code masks each line by itself; `KeepsToLines` says of a body that
CommonMark's spans all end on the line they start on. A document in `SotChecks`
is what the checks look at of the frontmatter, and a body. A violation keeps path, line,
code and the id it is about. In `SotLint` a run lists the tree (`Discover`), reads file after file
in the code's order (`LoadDocument`), runs the checks on what it has read (`Judge`) and exits, while authors
edit lines and frontmatter, copy, break and remove files. A file that `load_document` finds an
error in has that error's code for a form; one on which `yaml.load` raises something else than
`YAMLError`, as it does on a date there is none of, has the form "raises", and ends the run with
Python's exit code 1 (`LoadRaises`).

## 3. Runs

| run | expected | what it shows |
|---|---|---|
| `gate_channel` | pass | over every history of one SoT PR: GREEN exactly when the PR is complete (`GreenExactlyWhenComplete`, the right side is stated without the code's order of checks); whoever may not decide cannot open or block the gate (`BystandersMoveNothing`); over a push a GREEN gate stays GREEN exactly if neither key changes and the host withdrew no approval (`GreenFollowsContent`; `docs/sot/rule/sot-readiness.md`, reuse of judgment and approval) |
| `controller_safety` | pass | two callers, a SoT and an enforcement PR that change each other's keys, pushes, reviews, comments, approvals: types, `FreshVerdict`, `ApprovedLanding`, `AuditJustifies`, and refinement of `AuditedMain` |
| `controller_retries` | pass | one plain PR pushed to more often than there are rounds: a round is repeated only after a push, and a holder of the lock gives it back |
| `controller_record` | violation | the same document says that every merge is recorded; an exception out of a merge that landed leaves no record |
| `progress_board` | pass | `AllowedEditsAreNotRefused`: the refusals at a milestone, which see the two ends only, are the closure of the norm for single edits; `RecoverAgreesWithLint`, `PendingExactlyWhenAcceptable`, `WaitingIsFlagged`: the three readers and the severity table fit together; `FinishedWavesStay`: a roll-up of done or superseded is not taken back |
| `milestone_commit` | pass | whatever was staged, aborted, killed, misread or committed by hand before: `LawfulCommit` and `MessageTellsDiff` on the two commits (the first being taken for empty where `git show` failed), `OthersStayOut`, `AcceptedOnDoneReport`, and `PlanForetells` for the dry run, where `git show` answers both alike |
| `leader_lifecycle` | pass | `CommitsSurvive`: an unpushed commit is lost only by a removal that did not vouch for it, or that was made after the count; `StopLeavesNothing`: no window and no container is left when `down`, or a failed `up`, gets to the directory, but what tmux or docker would not remove; `CleanupIsOwn`: the cleanup of a failed `up`, which finds its victims by name, never meets an older session that its look was shown; `ServedWithHook`: however commands die and interleave, no repository is served before its hook is in place |
| `leader_unpushed` | violation | code and design promise that unpushed commits are not removed without `force`; a branch never pushed makes `rev-list` fail, and its empty output counts as nothing unpushed |
| `review_wait` | pass | `DecisionIsNew`: what ends a wait as a decision was given by the awaited reviewer during the wait, through dismissals in place or out of the stream, unless the cursor came from a view without the reviews, the one exception that the README of `git_host` admits (line 41); `TimedOutUnanswered`: a timeout after an answered poll passed over no decision in sight, whatever comment came after it; `WaitEnds`; the type invariant includes that no call goes on after more misses in a row than `max_consecutive_errors` |
| `review_lost` | violation | the README of `git_host` says that a decision between the request and the capture of the cursor costs one more wait and is not lost; it is older than every later cursor, and a second wait for the same request, all of whose views were complete, times out with it standing |
| `sot_lint` | pass | `QuietVerdictIsExact`: a run during which nobody writes exits with 0 exactly for a complete SoT, where "complete" and "code" are defined without the scanner and the checks, with 2 if a file did not parse; trees with a code span over a line end or a file that raises are excepted, by name; `VanishedIsAnError`; `LaterLinesHideNothing`: what the checks find in the first lines does not depend on later ones; `OthersAreNotCharged`: the check over all documents at once convicts each for its own entries |
| `agent_session` | pass | `WholePrompts`: an Enter of `send_when_idle` submits its caller's text alone, whoever died or failed half-way before; `EnterFindsIdle`: it meets an idle session but in the two windows that the code cannot see (the effect of the last Enter is not yet written, or the file cannot be read); `DeliberateStopIsNoError`, `WaitUntilIdleEnds` |

The three violations are disagreements with the documents that lose something: an
audit record, commits, a decision. Others, met while modelling, are in the models and have no
run of their own. Four of them bound what a passing run says; each is named in the property:

* the docstring of `commit.py` (lines 7-10) says that the module enforces that no row is lost
  and that no finished task resumes. One `git show HEAD:progress.md` that fails, for whatever
  reason, makes the base empty (`commit.py:269`), every row counts as new, and the call
  commits both. `LawfulCommit` and `MessageTellsDiff` are about the table that `git show`
  answered with (`TableShown`), so after such a read they compare with none;
* the design of phase 2 (line 282) says that `start` refuses when the window or the
  container is there. A `list-windows` or a `docker ps` that fails reads as nothing there
  (`tmux.py:63`, `container.py:92`); `new_window` then raises over the window of the older session,
  and the cleanup, which goes by the task's name, kills that window and removes its container.
  `CleanupIsOwn` excuses a call whose look was `misread`, and no other;
* `parser.py:274` says that inline code is scanned by CommonMark's rules, and
  `docs/sot/rule/sot-readiness.md:21` exempts code and nothing else. `_mask_inline_code` sees one
  line at a time (`parser.py:194`; the draft of the specification, line 35, does say so): behind a span
  over a line end it pairs other backticks than CommonMark, and a banned word or a
  placeholder in the prose passes with exit code 0 (a line with an unclosed backtick above
  one with a word in backticks is enough). `QuietVerdictIsExact` is about trees where
  `KeepsToLines` holds;
* the draft of the lint's specification (line 24) says that a file that cannot be checked
  gives exit code 2. `load_document` catches `YAMLError` only (`parser.py:179`); a date there is
  none of makes `yaml.load` raise `ValueError`, and Python exits with 1, the code of a violation.
  `QuietVerdictIsExact` says just that of such a tree.

And four smaller ones:

* a design document (2026-07-08-phase6, line 101) says that the role is the current one at
  the landing; the code reads roles before the merge and pins only the head
  (`controller.py:73`);
* the design of phase 4 (line 275) judges "done" on the tree of the commit; the code judges
  the index and commits the working tree, so a staged report that is gone from the working
  tree passes and is not committed (`commit.py:322`). `AcceptedOnDoneReport` has the
  condition that excludes it;
* `stop_daemon` promises to refuse for Leader sessions only; it refuses for the shell
  window that every new tmux session has (`hub.py:153`, `RefuseWhile` and `Session`);
* `install_gate` says that it is safe to write over an installed hook; it truncates it in
  place under a running daemon, and until it is written, or for good if the call dies
  there, the hook accepts everything (`hub.py:70`, `OpenHook` and `ReceiveMain`).

### Bounds, and why they are enough

* `gate_channel`: one PR (verdicts of two PRs interact only through `main`, which is the
  matter of `controller_safety`), three commits (a push that changes neither key, one that
  changes the sweep key alone, and a push over both), two stream entries (the least with a winner, a duplicate and a conflict), three actors: the
  author, a human decider and a bot; the decider's role changes; reports with and without
  findings, malformed, unparsable. Every reason of RED but those of fixed facts (fork,
  branch name) occurs.
* `controller_safety`: two callers are enough for a race for the lock; two sensitive PRs
  for a landing that changes another's keys; one push for a moved head; `MaxAttempts = 2`
  instead of 3 for a retry and an exhausted loop; one comment and one approval per PR.
  Roles do not change here (they do in `gate_channel`).
* `controller_retries`: three pushes and `MaxAttempts = 3`, the code's own value, so that the
  loop can run out.

* `progress_board`: two tasks of one wave, the least with a roll-up of different states;
  reports of the first in every state, with a word of the other vocabulary, with the
  other's id, broken and missing. All histories, without a bound on their length.
* `milestone_commit`: one task, one id that is not well formed, one foreign file; tables with
  no row, one row in four states, two rows of one task, rows that lint refuses for either of
  two reasons, and a broken file; five reports. Four edits, additions or commits by hand
  (`MaxEdits`) over any number of calls: enough for a report and a table to be written, staged
  and changed again around two milestones.

* `leader_lifecycle`: two processes (a command about the task and one about the hub at once),
  one task (commands on different tasks meet in the hub and the session only), one commit
  (every condition is about one commit at a time: pushed or not, counted or not), four
  commands: enough for a hub, a Leader, a removal under it and another Leader. The
  violation needs three.

* `review_wait`: two reviews by the awaited reviewer and another person (a decision that is
  old and one that is new, or a decision behind which a comment comes), one tolerated miss.
  `MaxWaits` bounds the waits for one request, one here; requests, and with them waits, are
  without bound. `review_lost` needs one review and two waits for one request.
* `sot_lint`: a complete SoT of one document of each kind and one rule, with code in fences
  and in lines; two edits before or between reads, of ten lines at every place and a value of
  each kind of fault per frontmatter field; a copy adds a second topic or rule. Two edits
  make a fence and its end, a dangling reference and the text that hides it, or a file
  that goes and one that changes during a run.
* `agent_session`: two processes, each started, attached, dying and coming back any number
  of times; two texts in the input line at once (`MaxLine`), the least that can be joined.

Every bound is a constant named in its module (`MaxHead`, `MaxComments`, `MaxApprovals`,
`Speaker`, `RoleChanges`, `MaxAttempts`, `Content`, `MaxEdits`, `Commit`, `MaxCalls`, `MaxReviews`,
`MaxWaits`, `Lines`, `FrontValues`, `MaxLine`).
Only `MaxAttempts` and `MaxErrors` (`max_consecutive_errors`) are bounds of the code.
Deadlock is checked but in the runs of `LeaderLifecycle`, where the commands are used up
after `MaxCalls`, and of `AgentSession`, where the session may be gone and no process left:
with `ChangeRuleset` the host never stops, so what stands for a stuck controller is
`CallsEnd`.

### Fairness

`CallsEnd` needs weak fairness of `Serve(c)`, that is, a call that holds the lock
goes on, because each port call returns or raises in the end and the code between them
is straight-line. Nothing is assumed of people or the host, and nothing of *which*
outcome a call has. That a waiting caller gets the lock is not claimed: Python's lock is
not fair, and `WF` would not give it.

`WaitEnds` needs weak fairness of the steps of the wait (the thread runs, a command
returns: the backend has no timeout of its own, so a command that hangs is excluded here)
and of `DeadlinePasses` (the clock advances). Nothing is assumed of what a command answers, nor
of people. `WaitUntilIdleEnds` needs the same of one turn of the loop of `wait_until_idle` and of
its clock, and nothing of the session.

## 4. Proofs

Every safety invariant and every action property that a passing run checks is a theorem of its
specification, for every value of the constants that the named assumptions allow. TLC evaluates
those assumptions in every run. Each section is one proof module.

### The gate

`GateChannelProofs` proves the three properties of `gate_channel` for every set of PRs, actors,
findings and reports and every bound (`HostAssumption`), over `ChannelSpec`.

* `GateIsExact`: GREEN exactly when the PR is complete.
* `GreenFollows`: a GREEN SoT change stays GREEN over a push exactly when the push alters
  neither what was judged nor what was swept and no approval was withdrawn.
* `BystandersHarmless`: what does not change the entries that count moves no verdict.

The lemmas go through `evaluate_gate` from the inside out. What `gate.py` finds valid for a
finding is the entries that count for it (`ValidIsAbout`). It refuses two with one id; the
property counts as many ids as entries, and a map of a finite set onto as many values is one to
one (`AboutIds`, from `FS_Surjection`). It looks for an edit at the entry with the greatest id,
which exists among finitely many (`GreatestExists`). So the checks 8, 11 and 9 pass for a
finding exactly when it is settled (`ResolvedIsSettled`); three passes over all findings refuse
none exactly when each finding passes all three (`ResolveGreen`); the early returns leave GREEN
for the conjunction (`SotGreen`, `GateGreen`).

The equivalence needs an invariant, `ChannelInv`: each artifact is kept under the kind of key
that its review computes (`Keyed`; a judgment key and a sweep key of one content are different
keys), and no comment id is beyond the length of its stream (`Numbered`, so that the ids of the
finitely many entries are bounded). For `GreenFollows`: on the host alone nothing lands, so the
content is what the commit itself brings (`OwnContent`); a step that moves the head is a push
(`HeadMovesByPush`), and of the parts of `Complete` a push can only touch those that compare
artifacts and approvals with the content (`PushKeepsComplete`). For `BystandersHarmless` a step of the channel is an entry more, an
entry less, an entry edited, or one handed over twice; in each case, if as many entries count
as before and they say the same, each finding has the same checks (`ChannelStep`,
`SameChecks`).

### The merge controller

These theorems are about `Spec` of `MergeController`, for every set of PRs, actors, callers and
findings, every number of rounds and every bound. They assume `HostAssumption` and
`ControllerAssumption` (the constants have their types; `NoCaller` is not a caller; at least
one round), which TLC evaluates in every run.

* `TypeCorrect`: `TypeOK`.
* `FreshVerdicts`: whatever lands, lands under the keys of what lands.
* `RetriesBounded`: the k-th round runs on a branch with at least k - 1 pushes.
* `ApprovedLandings`: what lands was approved by a decider, a SoT change with exactly the
  content that lands.
* `RecordsJustify`: every record is one of a landing; that of a SoT change shows both reviews
  of exactly its content and a decider's answer to every finding they left open.
* `Implementation`: the controller implements `AuditedMain`.

None of the invariants is inductive by itself. `IInv` adds to them `Stage(c)` for each caller,
what holds at each program counter: whoever is inside the `with` block holds the lock; the head
read first is at most the head now; the keys read are those of some commit between the head
read first and the head now, **over the `main` of now**. The last is the heart: `main` grows
only at a merge, a merge needs the lock, so `main` stands still from the first read to the
merge. A merge is accepted only if the pinned head is the head now; heads only grow, so the
interval is one commit and the keys are those of what lands. For `ApprovedLandings` the
strengthening `AInv` says of a caller about to merge that the approval it has read is still
among the PR's approvals, withdrawn perhaps, bound to the same content: approvals are
withdrawn, never forgotten. `RecordsJustify` is about evidence that was read a round of ports
ago: `JInv` says of a caller past the read of the artifacts that, as long as the head has not
moved, those it holds under the keys it read are those on file (`ArtifactsCurrent`); past the
read of the decisions, that each is marked as a human's exactly when its author is one
(`DecisionsSigned`); and of one about to record that the last landing of `main` is its own and
what it read justifies it (`Justified`). The record is then made of the read-set of the round
that landed, not of what the channel holds by then. The refinement proof rests on `IInv`: a
step that lands appends one landing with its own keys, and `owed` is true exactly while one
caller is between its merge and its record, which the lock makes unique.

The proof says something about the code that its comments do not: under RS-C the pin of the
head alone gives `FreshVerdict`; the read-set bracket is needed only so that a RED computed
from a torn read-set is retried rather than returned. And without RS-C neither would do: a head
that returns to an earlier commit passes both.

### Milestone commits

`MilestoneCommitProofs` proves all five properties of the run `milestone_commit`, for every set
of tasks, every content of the files that parses to rows of these tasks or not at all, and any
number of edits (`MilestoneAssumption`): `LawfulCommits`, `MessagesTellDiffs`,
`OthersAreLeftOut`, `AcceptedHaveReports`, `PlansForetell`.

The invariant has one part per stage of a call: the base is the table that `git show` answered
with, HEAD's or, if it failed, none (`BaseRead`; `LawfulCommits` and `MessagesTellDiffs` are
about that table, `TableShown`), the
new table is still the one in the working tree and the events are the difference (`NewRead`),
nothing refuses the rows (`RowsChecked`), the paths are those of these events (`PathsPicked`),
index and working tree agree on them (`Staged`), no event overclaims (`ReportsChecked`), the
message can be made (`MessageMade`). Each is established by the step of its name and kept by
the others, and by what changes beside the call, because that touches foreign paths only
(`StandStill`). What is committed at progress.md is then the table that was checked, in either
form of `git commit`. `OthersStayOut` needs one thought more: the form without a pathspec,
which takes the whole index, is chosen only when `git diff` has shown no difference at the
paths of the call. Then index and HEAD are equal there, and so are index and working tree
(`Staged`): progress.md does not change. So a commit that changes it names its paths, whatever
the base was, and whatever `git diff` answered (a failure counts as a difference).

### The progress board

`ProgressBoardProofs` proves the five properties of `progress_board` for any number of tasks
and waves and all histories (`BoardAssumption`): `AllowedEditsPass`, `RecoveryAgrees`,
`OffersAreAcceptable`, `WaitersAreFlagged` and, of steps, `WavesStayFinished`. The invariant:
the table and the one of the last milestone have one row per task (`WellKept`), no row is lost,
the base is spelled (a milestone looks only at the rows that changed, but what did not change
stood in the base before, `PassedIsSpelled`), and as long as the edits follow the norm what was
terminal at the base is what it was (`TerminalKept`: `ALLOWED_TRANSITIONS` leads out of no
terminal state). This makes the checks at a milestone, which see two ends, pass whatever the
norm allows in between. That the readers agree is proved of every row and every report, with
`ReadAlike` for what `recover.py` sees in a report and `Severities` for the table of pairs.

### Workspaces and Leaders

`LeaderLifecycleProofs` proves the types and the four properties of `leader_lifecycle` for any
number of processes, tasks, commits and commands (`HubAssumption`, `LifecycleAssumption`):
`TypesHold`, `HookServed`, `StopIsComplete`, `CleanupSparesOthers` and `CommitsAreKept`.

A call is a list of steps that early returns and exceptions cut short, so the first half of the
proof is about lists. `Linked` says which step may stand behind which; every command starts
with a linked list (`Programs`), and what is left after a step, an early return or a forced
removal put in front of a provision is linked again (`ListTail`, `ListSkip`, `ShiftedLinked`).
With that, a call at a step is known to have the rest of its procedure ahead of it.

The second half is `Stage(c)`, what a call knows at its step: the hook is executable from
`configure_hub` to `spawn` (`HookFirst`); a checkout finds no task branch to overwrite, and a
removal has seen nothing that the hub does not have (`CopyKnown`); after a stop there is no
window and no container; a cleanup has opened the window itself or
there is no session at all (`SessionKnown`). Each of the last two has the exceptions of its
property: a window that would not close may still have its `docker run` create a container
(`Closed`, `Removed`), and a look that was misread knows nothing (`Knows`). The interleavings are dealt with once: whatever
the step of another process is, for this task it is a `Drift` (the copy is not removed and
loses no commit, a copy without a task branch gets none, the hub's branch only grows, a window
that is closed stays closed, and where there is no session none comes up), and every part of
`Stage` survives a drift (`Bystander`). This needs `OneCommand`, that commands about one task
do not overlap; a second `up` on the same task would break `SessionKnown`. `HookServed` is the
invariant `daemon => hook.exec`: `open_hook` truncates the hook of a served hub and leaves its
mode alone. `CommitsAreKept` follows from two facts of the same state: only `Remove` takes
commits away (`OnlyRemoval`), and a call at its removal has seen no commit the hub lacks, so
one that is lost was not vouched for.

### Review waits

`ReviewWaitProofs` proves `Typing`, `DecisionsAreNew` and `TimedOutMeansUnanswered` for any
people, reviews, waits and tolerance (`ReviewWaitAssumption`). The invariant says where the
cursor stands: at a review of the awaited reviewer (`CursorIsTheirs`), behind all of theirs that
were shown when the wait began unless it came from an empty view (`CursorIsLast`), and what the last answered poll had in sight behind it: no
decision (`PolledIsUnanswered`). Both must survive what people do meanwhile. They append behind
the cursor, and dismiss before it or behind it; a dismissal can only take a decision out of
sight, never bring one in (`ShownAsGiven`). When the cursor's own review leaves the stream,
`terminal_after` finds nothing any more; this is why `TimedOutUnanswered` has its condition.

### Agent sessions

`AgentSessionProofs` proves the four safety properties of the run for any number of processes
(`AgentSessionAssumption`). The lock leaves one process in a send (`OneSends`), so the input
line belongs to whoever is there: empty after `clear_input`, their own text after `send_text`
(`LineIsOwn`), though a process that died before may have left anything in it. An `idle` in the
file is true as long as no Enter has gone unseen (`IdleIsTrue`): the session leaves idle only
by an Enter, and the record of that is read before `pending` ends. So a poll that read the file
and was not blind has an idle session before it, and only the caller's own Enter changes that
(`IdleBeforeEnter`).

### The SoT lint

`SotLintProofs` proves all the properties of `sot_lint` for any tree, any lines, any values of
the frontmatter and any number of edits (`SotLintAssumption`, `SotChecksAssumption`): `Typing`,
`VanishingFails`, `ChargesAreOwn`, `LaterLinesAreHarmless` and `VerdictsAreExact`.

`ChargesAreOwn` rests on the kinds having ids of their own (`SameKeySameFile`): two
declarations with one topic and one id are of one kind, hence in one file.

`VerdictsAreExact` says where the lint is right. A run during which nobody writes dies with 1 if
a file raises and exits with 2 if one did not parse; otherwise, if every code span in it ends on
its line (`KeepsToLines`), it exits with 0 exactly for a complete SoT (`Sound`). Without that
condition it is false (section 3). The proof has three layers.

* *Masking.* The recursive functions of the two scans exist and are what they say (`FencesDef`,
  `SpanEndsDef`). Induction over lines and atoms goes through `SetInduction`, which is natural
  induction said of a set instead of a predicate, so that a prover can use it. A set of spans
  that do not overlap, and in which every candidate starts inside a member, is unique: of two
  such sets take the member of their difference that starts first; the other set must have one
  that starts before it and takes it in, and that one is in the difference as well
  (`EarlierDifference`, `SpansAre`). The blocks that the scan opens are such a set, hence they
  are CommonMark's (`MasksFencedLines`); so are the spans that the other scan opens, of the
  candidates of one line (`MasksInlineCode`). That these are the spans of the body is another
  matter: by induction from the back a set of spans exists for any candidates (`SpansExist`), so
  CommonMark's set of the whole body is what its definition says; a candidate of the line has
  a place in the body and back (`LineSpan`, `SpanOnLine`); and where the body's spans keep to
  their lines, those of one line are a set of spans for that line's candidates (`CodeOfLine`). `LaterLinesAreHarmless`
  comes from the same induction: what is open after some lines depends on these lines alone
  (`FencesOfPrefix`).
* *Checks.* One lemma per check: it finds nothing exactly in what its part of `SoundDocument`
  describes (`MarksPass`, `ItemsPass`, `CriteriaPass`, `UniquePass`, `DuplicatesPass`,
  `ReferencesPass`); together, `RunChecks` is empty exactly for a sound tree
  (`ChecksAreExact`). The parts depend on one another: C6 asks of a box that it has no mark,
  which C4 and C5 ask of the whole text; C3 looks a reference up in the items of a document,
  which C2 has to vouch for.
* *The run.* In a quiet run what has been read is what is on disk (`QuietReads`), a judged
  one has the exit code of `main` for it (`QuietVerdict`), and one that died met a file that
  raises (`QuietDeath`).

### Only model-checked

The three liveness properties `CallsEnd`, `WaitEnds` and `WaitUntilIdleEnds`: liveness is out
of the prover's reach. The violation runs are counterexamples and have nothing to prove.
Outside the proofs are also the maskings' and the checks' translation from text (YAML,
spelling, indentation), which the model abstracts from.

## 5. Not modelled

Of the gate: the ports' implementation (a skeleton), the test doubles of the ports, text
normalisation and hashing (`normalize_finding_digest`), timestamps' resolution, the loss of
the audit list at a restart (the code documents the list as a stand-in for a store).

Of progress tracking: the markdown parsers and renderers, orphan reports, the lists
`in_rework` and `blocked_or_paused` and the text of a summary; the wording of the commit
message; merges and pulls of the working copy (a commit by hand stands for whatever else
moves HEAD between calls); HEAD moved *during* a call, which the rule of the single writer
excludes and the code does not.

Of workspaces and Leaders: commands of one task that overlap (a second `up` whose window fails
to open kills the session of the first, whose name it resolves); the image build; prompts
(`send_text`), the capture log and `status`; what git commands do to the repository around
a directory that is no clone; force pushes and commits on other branches; tmux, docker or
git missing altogether. Stopping the daemon races with a Leader that comes up, and the pid
file may name a process that lost the race for the port: both are in the model, no
document says what should hold, and so no property does.

Of the git host client: the command lines and field names of the adapters (GitLab and
Forgejo are provisional by their own words), the JSON; a command that hangs
(`SubprocessBackend` has no timeout); host states outside the map (`UNKNOWN`);
`awaiting`, which no code reads.

Of the agent runner: the transcript (`_drain`, `read_output`), which no decision reads; the
timestamp of a record, which `poll_state` keeps and does not compare; a backend on tmux
(`agent_runner/backend.py` is a contract and a fake; no backend of the repository has `read_state`), so
that whether a state file can outlive its container is not known and the model takes it
not to; callers without the lock that `inject` demands.

Of the SoT lint: YAML and its errors (a file that does not parse has one of the error codes or
raises), the spelling of tokens, text on a heading or a fence, backslash escapes, indentation, and
of CommonMark the blocks other than fences, headings, boxes and paragraphs (quotes, lists, tables,
HTML), which the lint does not know either, the wording, order and JSON of
the output. A run that overlaps with edits judges a mixture of versions; the lint does not
claim otherwise.

Not modelled at all: `infra/cron.py` edits one marked block of a crontab in sequence (a
`crontab -l` that fails is taken for an empty table, which is listed as a hazard);
`protocol/message.py` renders text; `protocol/inject.py` and `converge.py`, like the GitHub ports of the
gate, are signatures that raise `NotImplementedError`; `roles/spec.py` is a validated table of roles;
`web/server.py` shows the files it finds and keeps nothing; the agents' adapters put together command
lines and settings; `cli.py` beyond its dispatch of the commands of `LeaderLifecycle` parses arguments.

## 6. Plan

1. `SotGate`, `GateHost`, `GateChannel`, `MergeController`, `AuditedMain` and their proofs
   (done).
2. `MilestoneCommit` and its proofs (done).
3. `ProgressSchema`, `ProgressTable`, `ProgressBoard` (done).
4. `Hub` and `LeaderLifecycle` (done). Left: a run for the hub that `leader up` creates empty.
5. `ReviewWait` and its proofs (done).
6. `SotText`, `SotChecks`, `SotLint` and their proofs (done).
7. `AgentSession` and its proofs (done). To be revised when `inject` and a backend on tmux are
   written.
8. Theorems for every safety and action property of the runs (done). Left: a property of
   the hazards that have none (a list in `PROJECT.json`): the crontab block, a hub that `leader up` creates
   empty, the shell window in the way of `stop_daemon`, a pull request whose `view` fails.
