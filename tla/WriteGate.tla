---------------------------- MODULE WriteGate ----------------------------
(***************************************************************************)
(* Who may write.  An MCP server runs one CLI process per tool call.  A    *)
(* process reads .remogram.json, the git remote and the operator overlay,  *)
(* one file after the other, decides from what it read whether the write   *)
(* command is allowed, and only then asks the provider to write.  `doctor` *)
(* reads the same files and foretells which write commands are ready.      *)
(* People edit the files between any two reads.                            *)
(*                                                                         *)
(* A repository stands for the identity a config, a remote and an overlay  *)
(* are compared by (provider, remote name, host, owner/repo).  What a    *)
(* write does on the forge is the subject of MergeExecute, IdempotentOpen  *)
(* and StatusSet: here it takes effect or not, and is answered or not.     *)
(***************************************************************************)
EXTENDS Naturals, FiniteSets

CONSTANTS
    Procs,      \* tool calls, one CLI process each
    Repos,
    Commands,   \* WRITE_COMMAND_IDS
    Named,      \* the overlay at the path of --operator-config or the environment
    MaxEdits,   \* bound: edits of the files
    Absent, Malformed, Null

ASSUME NamedAssumption == Named \notin Repos
ASSUME FileAssumption ==
    /\ Absent # Malformed
    /\ {Absent, Malformed, Null} \cap Repos = {}
    /\ "doctor" \notin Commands

Places == Repos \cup {Named}
(* base: the provider's apiBase takes the config's baseUrl, or the lack of   *)
(* one, for the host of its repository.  It refuses some that doctor and    *)
(* assertForgeReady trust: none where the provider has no default, or an    *)
(* alias of the host.                                                       *)
Configs == [repo : Repos, grants : SUBSET Commands, base : BOOLEAN]
Overlays == [bind : Repos, grants : SUBSET Commands \ {{}}]

ASSUME FormAssumption ==
    {Absent, Malformed} \cap (Configs \cup Overlays) = {}
ASSUME AnswerAssumption == Null # "result"
ASSUME BoundAssumption == MaxEdits \in Nat

VARIABLES
    (* the files and the environment *)
    config,     \* .remogram.json; Malformed: missing, or does not parse
    remote,     \* the repository of the git remote's URL; Null: does not parse
    overlay,    \* operator overlays: the named one, and the default one of a repository
    byPath,     \* a path is named
    token,      \* the provider's token is set
    supported,  \* write commands the provider implements
    edits,
    (* the processes *)
    pc, run,
    cfg, id,    \* the config and the remote the process has read
    place,      \* the overlay it has discovered; Null: none
    out,        \* the type of the packet it printed
    answer,     \* what the MCP server makes of it
    (* the forge *)
    effects,
    (* history, while the process ran *)
    named,      \* repositories the config named
    pointed,    \* repositories the remote pointed at
    granted,    \* <<repository, command>> some file granted
    quiet,      \* no file was edited
    report,     \* the last doctor report no edit has outdated
    promise     \* that report when the process began

files   == <<config, remote, overlay, byPath, token, supported, edits>>
reads   == <<cfg, id, place>>
history == <<named, pointed, granted, quiet, report, promise>>
vars    == <<config, remote, overlay, byPath, token, supported, edits, pc, run, cfg, id,
             place, out, answer, effects, named, pointed, granted, quiet, report,
             promise>>
-----------------------------------------------------------------------------
(* The types of packets: a refusal (config_*, remote_*, write_not_configured,*)
(* ..., and the provider's own of a base URL) and whatever a provider call  *)
(* throws are errors.                                                       *)
Types == {"none", "refused", "base_refused", "failed", "written",
          "doctor_pass", "doctor_fail"}
IsOk(type) == type \in {"written", "doctor_pass"}

(* Mutant: whatever parses is passed on as a result.                        *)
AnswerParsed(type, overflow) ==
    IF type # "none" /\ ~overflow THEN "result" ELSE "error"

(* packetToMcpContent: an error packet is an error, and so is the output of  *)
(* a process that printed none, or more than MAX_OUTPUT_BYTES (of stderr    *)
(* too), whatever it says.                                                  *)
Answer(type, overflow) == IF IsOk(type) /\ ~overflow THEN "result" ELSE "error"

Report(ok, ready, live) == [ok |-> ok, ready |-> ready, live |-> live]
Reports == [ok : BOOLEAN, ready : SUBSET Commands, live : BOOLEAN]

Steps == {"idle", "config", "remote", "discover", "overlay", "request", "exited"}
-----------------------------------------------------------------------------
(* discoverOperatorConfigPath: a named path is taken as it is, the default  *)
(* of the identity only when the file is there.                             *)
Discovered(r) ==
    IF byPath THEN Named ELSE IF overlay[r] = Absent THEN Null ELSE r

(* Mutant: any overlay that parses is taken. *)
BindIgnored(o, r) == TRUE

(* assertOperatorBindMatches. *)
BindMatches(o, r) == o.bind = r

(* loadOperatorConfig: a missing or unreadable file and a foreign binding   *)
(* are errors.                                                              *)
OverlayFails(p, r) ==
    /\ place[p] # Null
    /\ \/ overlay[place[p]] \in {Absent, Malformed}
       \/ ~BindMatches(overlay[place[p]], r)

OverlayGrants(p, r) ==
    IF place[p] = Null \/ OverlayFails(p, r) THEN {} ELSE overlay[place[p]].grants

(* resolveEffectiveWritePolicy: the union.                                  *)
EffectiveGrants(p, r) == cfg[p].grants \cup OverlayGrants(p, r)

(* assertWriteCommandConfigured: an overlay error blocks every write, also  *)
(* those the repository's own config grants.                                *)
Allowed(p, r, c) == ~OverlayFails(p, r) /\ c \in EffectiveGrants(p, r)

(* Mutant: the policy alone makes a command ready.                          *)
ReadyByPolicy(p, r) == {c \in supported : Allowed(p, r, c)}

(* buildWriteReadiness. *)
Ready(p, r) == {c \in supported : token /\ Allowed(p, r, c)}
-----------------------------------------------------------------------------
(* What the files say now, for the history. *)
ConfigRepos(f) == IF f \in Configs THEN {f.repo} ELSE {}
RemoteRepos(f) == IF f = Null THEN {} ELSE {f}
Grants(f, o) ==
    {rc \in Repos \X Commands :
        \/ f \in Configs /\ f.repo = rc[1] /\ rc[2] \in f.grants
        \/ \E l \in Places : o[l] \in Overlays /\ o[l].bind = rc[1] /\ rc[2] \in o[l].grants}

Init ==
    /\ config \in Configs
    /\ remote = config.repo
    /\ overlay = [l \in Places |-> Absent]
    /\ byPath \in BOOLEAN /\ token \in BOOLEAN
    /\ supported \in SUBSET Commands
    /\ edits = 0
    /\ pc = [p \in Procs |-> "idle"]
    /\ run = [p \in Procs |-> "doctor"]
    /\ cfg = [p \in Procs |-> Null]
    /\ id = [p \in Procs |-> Null]
    /\ place = [p \in Procs |-> Null]
    /\ out = [p \in Procs |-> "none"]
    /\ answer = [p \in Procs |-> Null]
    /\ effects = {}
    /\ named = [p \in Procs |-> {}]
    /\ pointed = [p \in Procs |-> {}]
    /\ granted = [p \in Procs |-> {}]
    /\ quiet = [p \in Procs |-> FALSE]
    /\ report = Null
    /\ promise = [p \in Procs |-> Null]
-----------------------------------------------------------------------------
(* People edit the files.                                                   *)

Runs(p) == pc[p] \notin {"idle", "exited"}

Edit ==
    /\ \E p \in Procs : pc[p] # "exited"
    /\ edits < MaxEdits /\ edits' = edits + 1
    /\ named' = [p \in Procs |->
         IF Runs(p) THEN named[p] \cup ConfigRepos(config') ELSE named[p]]
    /\ pointed' = [p \in Procs |->
         IF Runs(p) THEN pointed[p] \cup RemoteRepos(remote') ELSE pointed[p]]
    /\ granted' = [p \in Procs |->
         IF Runs(p) THEN granted[p] \cup Grants(config', overlay') ELSE granted[p]]
    /\ quiet' = [p \in Procs |-> quiet[p] /\ ~Runs(p)]
    /\ report' = Null
    /\ UNCHANGED <<byPath, token, supported, pc, run, reads, out, answer, effects, promise>>

EditConfig(f) == f # config /\ config' = f /\ UNCHANGED <<remote, overlay>> /\ Edit
EditRemote(r) == r # remote /\ remote' = r /\ UNCHANGED <<config, overlay>> /\ Edit
EditOverlay(l, o) ==        \* the others are not looked at
    /\ byPath <=> l = Named
    /\ o # overlay[l]
    /\ overlay' = [overlay EXCEPT ![l] = o]
    /\ UNCHANGED <<config, remote>> /\ Edit
-----------------------------------------------------------------------------
(* runRemogramCli: a tool is called and its process spawned.                *)
Call(p, what) ==
    /\ pc[p] = "idle"
    /\ pc' = [pc EXCEPT ![p] = "config"]
    /\ run' = [run EXCEPT ![p] = what]
    /\ named' = [named EXCEPT ![p] = ConfigRepos(config)]
    /\ pointed' = [pointed EXCEPT ![p] = RemoteRepos(remote)]
    /\ granted' = [granted EXCEPT ![p] = Grants(config, overlay)]
    /\ quiet' = [quiet EXCEPT ![p] = TRUE]
    /\ promise' = [promise EXCEPT ![p] = report]
    /\ UNCHANGED <<files, reads, out, answer, effects, report>>

-----------------------------------------------------------------------------
(* The process: runCli.                                                     *)

Goto(p, step) == pc' = [pc EXCEPT ![p] = step] /\ UNCHANGED run

(* It prints and ends, what it read ends with it, and its output is closed. *)
Exit(p, type) ==
    /\ Goto(p, "exited")
    /\ out' = [out EXCEPT ![p] = type]
    /\ \E overflow \in BOOLEAN : answer' = [answer EXCEPT ![p] = Answer(type, overflow)]
    /\ cfg' = [cfg EXCEPT ![p] = Null]
    /\ id' = [id EXCEPT ![p] = Null]
    /\ place' = [place EXCEPT ![p] = Null]

(* finalizeDoctorPacket.  A report of a quiet doctor stands.                *)
DoctorExits(p, ok, ready, live) ==
    /\ Exit(p, IF ok THEN "doctor_pass" ELSE "doctor_fail")
    /\ report' = IF quiet[p] THEN Report(ok, ready, live) ELSE report
    /\ UNCHANGED <<named, pointed, granted, quiet, promise>>

(* loadConfig. *)
LoadConfig(p) ==
    /\ pc[p] = "config"
    /\ config \in Configs
    /\ cfg' = [cfg EXCEPT ![p] = config]
    /\ Goto(p, "remote")
    /\ UNCHANGED <<files, id, place, out, answer, effects, history>>

ConfigUnusable(p) ==
    /\ pc[p] = "config" /\ run[p] # "doctor"
    /\ config \notin Configs
    /\ Exit(p, "refused")
    /\ UNCHANGED <<files, effects, history>>

DoctorConfigUnusable(p) ==
    /\ pc[p] = "config" /\ run[p] = "doctor"
    /\ config \notin Configs
    /\ \E live \in BOOLEAN : DoctorExits(p, FALSE, {}, live)
    /\ UNCHANGED <<files, effects>>

(* Mutant: a write starts as doctor does, without assertForgeReady.         *)
ReadRemoteUnchecked(p) ==
    /\ pc[p] = "remote"
    /\ id' = [id EXCEPT ![p] = remote]
    /\ Goto(p, "discover")
    /\ UNCHANGED <<files, cfg, place, out, answer, effects, history>>

(* assertForgeReady: the remote is the config's repository, on a host that  *)
(* trustedBaseUrl trusts.                                                   *)
ReadRemote(p) ==
    /\ pc[p] = "remote"
    /\ run[p] # "doctor" => remote = cfg[p].repo
    /\ id' = [id EXCEPT ![p] = remote]
    /\ Goto(p, "discover")
    /\ UNCHANGED <<files, cfg, place, out, answer, effects, history>>

RemoteUnusable(p) ==
    /\ pc[p] = "remote" /\ run[p] # "doctor"
    /\ remote # cfg[p].repo
    /\ Exit(p, "refused")
    /\ UNCHANGED <<files, effects, history>>

(* The identity an overlay is looked up and bound by; doctor goes on with   *)
(* the config's own when the remote does not parse.                         *)
Identity(p) == IF id[p] = Null THEN cfg[p].repo ELSE id[p]

Discover(p) ==
    /\ pc[p] = "discover"
    /\ place' = [place EXCEPT ![p] = Discovered(Identity(p))]
    /\ Goto(p, "overlay")
    /\ UNCHANGED <<files, cfg, id, out, answer, effects, history>>

(* loadOperatorConfig and assertWriteCommandConfigured, after a check that  *)
(* the provider has the command at all.                                     *)
PassGate(p) ==
    /\ pc[p] = "overlay" /\ run[p] \in supported
    /\ Allowed(p, Identity(p), run[p])
    /\ Goto(p, "request")
    /\ UNCHANGED <<files, reads, out, answer, effects, history>>

RefuseAtGate(p) ==
    /\ pc[p] = "overlay" /\ run[p] # "doctor"
    /\ run[p] \notin supported \/ ~Allowed(p, Identity(p), run[p])
    /\ Exit(p, "refused")
    /\ UNCHANGED <<files, effects, history>>

(* requireToken and apiBase, without which a provider sends no request.     *)
CanAsk(p) == token /\ cfg[p].base

(* buildDoctorPacket: the checks that can fail are the remote, its match    *)
(* with the config, the host, the overlay and, asked for, the live probe    *)
(* (buildApiReachabilityCheck), the only one that calls apiBase.            *)
DoctorOk(p) == id[p] = cfg[p].repo /\ ~OverlayFails(p, Identity(p))
ProbeOk(p, reachable) == CanAsk(p) /\ reachable

DoctorReports(p) ==
    /\ pc[p] = "overlay" /\ run[p] = "doctor"
    /\ \E live, reachable \in BOOLEAN :
        DoctorExits(p, DoctorOk(p) /\ (live => ProbeOk(p, reachable)),
                    Ready(p, Identity(p)), live)
    /\ UNCHANGED <<files, effects>>

(* The provider call, for the repository of the remote.  A write may take   *)
(* effect and its answer be lost, find its record in place, or fail.        *)
Effect(p) == [by |-> p, repo |-> id[p], command |-> run[p]]

Write(p) ==
    /\ pc[p] = "request" /\ CanAsk(p)
    /\ effects' = effects \cup {Effect(p)}
    /\ \E type \in {"written", "failed"} : Exit(p, type)
    /\ UNCHANGED <<files, history>>

WriteReuses(p) ==
    /\ pc[p] = "request" /\ CanAsk(p)
    /\ \E e \in effects : e.repo = id[p] /\ e.command = run[p]
    /\ Exit(p, "written")
    /\ UNCHANGED <<files, effects, history>>

WriteFails(p) ==
    /\ pc[p] = "request" /\ CanAsk(p)
    /\ Exit(p, "failed")
    /\ UNCHANGED <<files, effects, history>>

(* requireToken. *)
TokenMissing(p) ==
    /\ pc[p] = "request" /\ ~token
    /\ Exit(p, "refused")
    /\ UNCHANGED <<files, effects, history>>

(* apiBase; which of the two comes first differs between providers.         *)
BaseRefused(p) ==
    /\ pc[p] = "request" /\ ~cfg[p].base
    /\ Exit(p, "base_refused")
    /\ UNCHANGED <<files, effects, history>>

(* The process is killed before it prints, its request sent or not.         *)
Killed(p) ==
    /\ pc[p] \notin {"idle", "exited"}
    /\ Exit(p, "none")
    /\ effects' \in {effects} \cup
         (IF pc[p] = "request" /\ CanAsk(p) THEN {effects \cup {Effect(p)}} ELSE {})
    /\ UNCHANGED <<files, history>>
-----------------------------------------------------------------------------
Child(p) ==
    \/ LoadConfig(p) \/ ConfigUnusable(p) \/ DoctorConfigUnusable(p)
    \/ ReadRemote(p) \/ RemoteUnusable(p) \/ Discover(p)
    \/ PassGate(p) \/ RefuseAtGate(p) \/ DoctorReports(p)
    \/ Write(p) \/ WriteReuses(p) \/ WriteFails(p)
    \/ TokenMissing(p) \/ BaseRefused(p) \/ Killed(p)

Next ==
    \/ \E f \in Configs \cup {Malformed} : EditConfig(f)
    \/ \E r \in Repos \cup {Null} : EditRemote(r)
    \/ \E l \in Places, o \in Overlays \cup {Absent, Malformed} : EditOverlay(l, o)
    \/ \E p \in Procs, what \in Commands \cup {"doctor"} : Call(p, what)
    \/ \E p \in Procs : Child(p)

(* Every request of a process has a time-out, so it exits.                  *)
Spec == Init /\ [][Next]_vars /\ \A p \in Procs : WF_vars(Child(p))
-----------------------------------------------------------------------------
TypeOK ==
    /\ config \in Configs \cup {Malformed}
    /\ remote \in Repos \cup {Null}
    /\ overlay \in [Places -> Overlays \cup {Absent, Malformed}]
    /\ byPath \in BOOLEAN /\ token \in BOOLEAN
    /\ supported \in SUBSET Commands
    /\ edits \in 0..MaxEdits
    /\ pc \in [Procs -> Steps]
    /\ run \in [Procs -> Commands \cup {"doctor"}]
    /\ cfg \in [Procs -> Configs \cup {Null}]
    /\ id \in [Procs -> Repos \cup {Null}]
    /\ place \in [Procs -> Places \cup {Null}]
    /\ out \in [Procs -> Types]
    /\ answer \in [Procs -> {"result", "error", Null}]
    /\ effects \subseteq [by : Procs, repo : Repos, command : Commands]
    /\ named \in [Procs -> SUBSET Repos]
    /\ pointed \in [Procs -> SUBSET Repos]
    /\ granted \in [Procs -> SUBSET (Repos \X Commands)]
    /\ quiet \in [Procs -> BOOLEAN]
    /\ report \in Reports \cup {Null}
    /\ promise \in [Procs -> Reports \cup {Null}]

(* Whatever is edited between its reads, a process writes only to a         *)
(* repository that the config named and the remote pointed at while it ran, *)
(* and only a command that this repository's config or an overlay bound to  *)
(* it granted while it ran.                                                 *)
WriteWasGranted ==
    \A e \in effects :
        /\ e.repo \in named[e.by] \cap pointed[e.by]
        /\ <<e.repo, e.command>> \in granted[e.by]

(* With no edit since doctor began, a command doctor reported ready and     *)
(* itself passed is not refused by the gate nor for want of a token, and    *)
(* one it did not report ready writes nothing.  Only doctor --live calls    *)
(* apiBase: after one that passed no write is refused for its base URL, and *)
(* a failed probe alone need not come true.                                 *)
DoctorForeseesGate ==
    \A p \in Procs : (quiet[p] /\ promise[p] # Null /\ run[p] \in Commands) =>
        /\ (\E e \in effects : e.by = p) =>
             run[p] \in promise[p].ready /\ (promise[p].ok \/ promise[p].live)
        /\ out[p] = "refused" => ~(promise[p].ok /\ run[p] \in promise[p].ready)
        /\ out[p] = "base_refused" => ~(promise[p].ok /\ promise[p].live)

(* The caller is told of a success only when the write is in effect, and a  *)
(* refused call left nothing behind.                                        *)
AnswerIsTrue ==
    \A p \in Procs : run[p] \in Commands =>
        /\ answer[p] = "result" =>
             \E e \in effects : e.repo \in pointed[p] /\ e.command = run[p]
        /\ out[p] \in {"refused", "base_refused"} => ~\E e \in effects : e.by = p
===========================================================================
