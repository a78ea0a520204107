-------------------------- MODULE WriteGateProofs --------------------------
(***************************************************************************)
(* Proofs about WriteGate for any number of tool calls, repositories and   *)
(* edits: types, that a write goes only where the files allowed it while   *)
(* its process ran, that the caller is told the truth about it, and that   *)
(* doctor foretells the gate.                                              *)
(***************************************************************************)
EXTENDS WriteGate, TLAPS

USE DEF files, reads, history

(* The inductive invariant.  While a process runs, what the files say now   *)
(* is among what they said while it ran.                                    *)
NowIsRemembered ==
    \A p \in Procs : Runs(p) =>
        /\ ConfigRepos(config) \subseteq named[p]
        /\ RemoteRepos(remote) \subseteq pointed[p]
        /\ Grants(config, overlay) \subseteq granted[p]

(* So is what it has read: its config, with the grants in it, ...           *)
ConfigWasRead ==
    \A p \in Procs : pc[p] \in {"remote", "discover", "overlay", "request"} =>
        /\ cfg[p] \in Configs
        /\ cfg[p].repo \in named[p]
        /\ \A c \in cfg[p].grants : <<cfg[p].repo, c>> \in granted[p]

(* ... and the remote, which a write command found to be the config's.      *)
RemoteWasRead ==
    \A p \in Procs :
        (pc[p] \in {"discover", "overlay", "request"} /\ run[p] # "doctor") =>
            id[p] = cfg[p].repo /\ id[p] \in pointed[p]

(* Behind the gate the command has its grant.                               *)
GateWasPassed ==
    \A p \in Procs : pc[p] = "request" =>
        run[p] \in Commands /\ <<id[p], run[p]>> \in granted[p]

AnswersAtExit ==
    \A p \in Procs : pc[p] # "exited" => out[p] = "none" /\ answer[p] = Null

(* A process that wrote has ended, and not with a refusal.                  *)
WritersExited ==
    \A e \in effects :
        pc[e.by] = "exited" /\ out[e.by] \in {"written", "failed", "none"}

ResultIsTrue ==
    \A p \in Procs : (run[p] \in Commands /\ answer[p] = "result") =>
        \E e \in effects : e.repo \in pointed[p] /\ e.command = run[p]

IInv == /\ TypeOK /\ NowIsRemembered /\ ConfigWasRead /\ RemoteWasRead /\ GateWasPassed
        /\ AnswersAtExit /\ WritersExited /\ WriteWasGranted /\ ResultIsTrue
-----------------------------------------------------------------------------
LEMMA InitInvariant == Init => IInv
<1> SUFFICES ASSUME Init PROVE IInv
  OBVIOUS
<1>1. TypeOK
  <2>1. edits \in 0..MaxEdits
    BY BoundAssumption DEF Init
  <2>2. /\ config \in Configs \cup {Malformed} /\ remote \in Repos \cup {Null}
        /\ overlay \in [Places -> Overlays \cup {Absent, Malformed}]
    BY DEF Init, Configs
  <2> QED  BY <2>1, <2>2 DEF Init, TypeOK, Steps, Types
<1>2. NowIsRemembered /\ ConfigWasRead /\ RemoteWasRead /\ GateWasPassed
  BY DEF Init, NowIsRemembered, ConfigWasRead, RemoteWasRead, GateWasPassed, Runs
<1>3. AnswersAtExit /\ WritersExited /\ WriteWasGranted
  BY DEF Init, AnswersAtExit, WritersExited, WriteWasGranted
<1>4. ResultIsTrue
  BY AnswerAssumption DEF Init, ResultIsTrue
<1> QED  BY <1>1, <1>2, <1>3, <1>4 DEF IInv

(* What the files grant is a set of pairs.                                  *)
LEMMA GrantsType == \A f, o : Grants(f, o) \subseteq Repos \X Commands
BY DEF Grants

(* People edit a file: what it says now is remembered by who runs.          *)
LEMMA EditStep ==
    ASSUME IInv, Edit,
           config' \in Configs \cup {Malformed}, remote' \in Repos \cup {Null},
           overlay' \in [Places -> Overlays \cup {Absent, Malformed}]
    PROVE  IInv'
<1> USE DEF IInv
<1>0. /\ UNCHANGED <<byPath, token, supported, pc, run, cfg, id, place, out, answer, effects,
                     promise>>
      /\ \A p \in Procs : Runs(p)' = Runs(p)
      /\ report' = Null /\ edits' = edits + 1 /\ edits < MaxEdits
  BY DEF Edit, Runs
<1>1. /\ named' \in [Procs -> SUBSET Repos]
      /\ pointed' \in [Procs -> SUBSET Repos]
      /\ granted' \in [Procs -> SUBSET (Repos \X Commands)]
      /\ quiet' \in [Procs -> BOOLEAN]
  <2>1. ConfigRepos(config') \subseteq Repos /\ RemoteRepos(remote') \subseteq Repos
    BY DEF ConfigRepos, RemoteRepos, Configs
  <2>2. Grants(config', overlay') \subseteq Repos \X Commands
    BY GrantsType
  <2>3. /\ named' \in [Procs -> SUBSET Repos]
        /\ pointed' \in [Procs -> SUBSET Repos]
    BY <2>1 DEF Edit, TypeOK
  <2>4. granted' \in [Procs -> SUBSET (Repos \X Commands)]
    BY <2>2 DEF Edit, TypeOK
  <2>5. quiet' \in [Procs -> BOOLEAN]
    <3>1. \A p \in Procs : (quiet[p] /\ ~Runs(p)) \in BOOLEAN
      OBVIOUS
    <3> QED  BY <3>1, Zenon DEF Edit
  <2> QED  BY <2>3, <2>4, <2>5
<1>2. \A p \in Procs :
        named[p] \subseteq named'[p] /\ pointed[p] \subseteq pointed'[p]
        /\ granted[p] \subseteq granted'[p]
  BY DEF Edit, TypeOK
<1>3. \A p \in Procs : Runs(p) =>
        /\ ConfigRepos(config') \subseteq named'[p]
        /\ RemoteRepos(remote') \subseteq pointed'[p]
        /\ Grants(config', overlay') \subseteq granted'[p]
  BY DEF Edit, TypeOK
<1>4. edits' \in 0..MaxEdits
  BY <1>0, BoundAssumption DEF TypeOK
<1>5. TypeOK'
  BY <1>0, <1>1, <1>4 DEF TypeOK
<1>6. NowIsRemembered'
  BY <1>0, <1>3 DEF NowIsRemembered
<1>7. ConfigWasRead' /\ RemoteWasRead' /\ GateWasPassed'
  BY <1>0, <1>2 DEF ConfigWasRead, RemoteWasRead, GateWasPassed
<1>8. AnswersAtExit' /\ WritersExited'
  BY <1>0 DEF AnswersAtExit, WritersExited
<1>9. WriteWasGranted' /\ ResultIsTrue'
  BY <1>0, <1>2 DEF WriteWasGranted, ResultIsTrue, TypeOK
<1> QED  BY <1>5, <1>6, <1>7, <1>8, <1>9

(* A tool is called: the process sees what the files say at its start.      *)
LEMMA CallStep ==
    ASSUME IInv, NEW p \in Procs, NEW what \in Commands \cup {"doctor"}, Call(p, what)
    PROVE  IInv'
<1> USE DEF IInv
<1>0. /\ pc[p] = "idle"
      /\ pc' = [pc EXCEPT ![p] = "config"]
      /\ run' = [run EXCEPT ![p] = what]
      /\ named' = [named EXCEPT ![p] = ConfigRepos(config)]
      /\ pointed' = [pointed EXCEPT ![p] = RemoteRepos(remote)]
      /\ granted' = [granted EXCEPT ![p] = Grants(config, overlay)]
      /\ quiet' = [quiet EXCEPT ![p] = TRUE]
      /\ promise' = [promise EXCEPT ![p] = report]
      /\ UNCHANGED <<files, reads, out, answer, effects, report>>
  BY DEF Call
<1>1. TypeOK'
  <2>1. ConfigRepos(config) \subseteq Repos /\ RemoteRepos(remote) \subseteq Repos
    BY DEF ConfigRepos, RemoteRepos, Configs, TypeOK
  <2>2. Grants(config, overlay) \subseteq Repos \X Commands
    BY GrantsType
  <2>3. pc' \in [Procs -> Steps] /\ run' \in [Procs -> Commands \cup {"doctor"}]
    BY <1>0 DEF TypeOK, Steps
  <2>4. /\ named' \in [Procs -> SUBSET Repos] /\ pointed' \in [Procs -> SUBSET Repos]
        /\ granted' \in [Procs -> SUBSET (Repos \X Commands)]
    BY <1>0, <2>1, <2>2 DEF TypeOK
  <2>5. quiet' \in [Procs -> BOOLEAN] /\ promise' \in [Procs -> Reports \cup {Null}]
    BY <1>0 DEF TypeOK
  <2> QED  BY <1>0, <2>3, <2>4, <2>5 DEF TypeOK
<1>2. \A q \in Procs : q # p =>
        /\ pc'[q] = pc[q] /\ run'[q] = run[q] /\ named'[q] = named[q]
        /\ pointed'[q] = pointed[q] /\ granted'[q] = granted[q]
  BY <1>0 DEF TypeOK
<1>3. /\ pc'[p] = "config" /\ named'[p] = ConfigRepos(config)
      /\ pointed'[p] = RemoteRepos(remote) /\ granted'[p] = Grants(config, overlay)
  BY <1>0 DEF TypeOK
<1>4. NowIsRemembered'
  BY <1>0, <1>2, <1>3 DEF NowIsRemembered, Runs
<1>5. ConfigWasRead' /\ RemoteWasRead' /\ GateWasPassed'
  BY <1>0, <1>2, <1>3 DEF ConfigWasRead, RemoteWasRead, GateWasPassed
<1>6. AnswersAtExit'
  BY <1>0, <1>2, <1>3 DEF AnswersAtExit
<1>7. \A e \in effects : e.by \in Procs /\ e.by # p
  BY <1>0 DEF WritersExited, TypeOK
<1>8. WritersExited' /\ WriteWasGranted'
  BY <1>0, <1>2, <1>7 DEF WritersExited, WriteWasGranted
<1>9. ResultIsTrue'
  BY <1>0, <1>2, AnswerAssumption DEF ResultIsTrue, AnswersAtExit
<1> QED  BY <1>1, <1>4, <1>5, <1>6, <1>8, <1>9
-----------------------------------------------------------------------------
(* A step of a process that goes on: of the rest only what it reads changes.*)
Continues(p, step) ==
    /\ p \in Procs
    /\ pc[p] \notin {"idle", "exited"} /\ step \in {"remote", "discover", "overlay", "request"}
    /\ pc' = [pc EXCEPT ![p] = step]
    /\ UNCHANGED <<files, run, out, answer, effects, history>>
    /\ \A q \in Procs : q # p => cfg'[q] = cfg[q] /\ id'[q] = id[q]

LEMMA ContinueStep ==
    ASSUME IInv, NEW p, NEW step, Continues(p, step),
           cfg' \in [Procs -> Configs \cup {Null}],
           id' \in [Procs -> Repos \cup {Null}],
           place' \in [Procs -> Places \cup {Null}],
           /\ cfg'[p] \in Configs /\ cfg'[p].repo \in named[p]
           /\ \A c \in cfg'[p].grants : <<cfg'[p].repo, c>> \in granted[p],
           (step # "remote" /\ run[p] # "doctor") =>
                id'[p] = cfg'[p].repo /\ id'[p] \in pointed[p],
           step = "request" => run[p] \in Commands /\ <<id'[p], run[p]>> \in granted[p]
    PROVE  IInv'
<1> USE DEF IInv
<1>0. /\ \A q \in Procs : q # p => pc'[q] = pc[q] /\ cfg'[q] = cfg[q] /\ id'[q] = id[q]
      /\ p \in Procs /\ pc'[p] = step
      /\ step \in {"remote", "discover", "overlay", "request"}
      /\ pc[p] \notin {"idle", "exited"}
      /\ UNCHANGED <<files, run, out, answer, effects, history>>
  BY DEF Continues, TypeOK
<1>1. TypeOK'
  <2>1. pc' \in [Procs -> Steps]
    BY DEF Continues, TypeOK, Steps
  <2> QED  BY <1>0, <2>1 DEF TypeOK
<1>2. NowIsRemembered'
  BY <1>0 DEF NowIsRemembered, Runs
<1>3. ConfigWasRead'
  BY <1>0 DEF ConfigWasRead
<1>4. RemoteWasRead'
  BY <1>0 DEF RemoteWasRead
<1>5. GateWasPassed'
  BY <1>0 DEF GateWasPassed
<1>6. AnswersAtExit' /\ ResultIsTrue' /\ WriteWasGranted'
  BY <1>0 DEF AnswersAtExit, ResultIsTrue, WriteWasGranted
<1>7. WritersExited'
  BY <1>0 DEF WritersExited, TypeOK
<1> QED  BY <1>1, <1>2, <1>3, <1>4, <1>5, <1>6, <1>7

LEMMA LoadConfigStep ==
    ASSUME IInv, NEW p \in Procs, LoadConfig(p)
    PROVE  IInv'
<1> USE DEF IInv
<1>1. /\ config \in Configs /\ cfg' = [cfg EXCEPT ![p] = config] /\ pc[p] = "config"
      /\ Continues(p, "remote") /\ UNCHANGED <<id, place>>
  BY DEF LoadConfig, Goto, Continues, TypeOK
<1>2. cfg' \in [Procs -> Configs \cup {Null}] /\ cfg'[p] = config
  BY <1>1 DEF TypeOK
<1>3. ConfigRepos(config) \subseteq named[p] /\ Grants(config, overlay) \subseteq granted[p]
  BY <1>1 DEF NowIsRemembered, Runs
<1>4. config.repo \in named[p] /\ config.repo \in Repos /\ config.grants \subseteq Commands
  BY <1>1, <1>3 DEF ConfigRepos, Configs
<1>5. \A c \in config.grants : <<config.repo, c>> \in Grants(config, overlay)
  BY <1>1, <1>4 DEF Grants
<1> QED  BY <1>1, <1>2, <1>3, <1>4, <1>5, ContinueStep DEF TypeOK

LEMMA ReadRemoteStep ==
    ASSUME IInv, NEW p \in Procs, ReadRemote(p)
    PROVE  IInv'
<1> USE DEF IInv
<1>1. /\ pc[p] = "remote" /\ (run[p] # "doctor" => remote = cfg[p].repo)
      /\ id' = [id EXCEPT ![p] = remote]
      /\ Continues(p, "discover") /\ UNCHANGED <<cfg, place>>
  BY DEF ReadRemote, Goto, Continues, TypeOK
<1>2. id' \in [Procs -> Repos \cup {Null}] /\ id'[p] = remote
  BY <1>1 DEF TypeOK
<1>3. /\ cfg[p] \in Configs /\ cfg[p].repo \in named[p]
      /\ \A c \in cfg[p].grants : <<cfg[p].repo, c>> \in granted[p]
  BY <1>1 DEF ConfigWasRead
<1>4. RemoteRepos(remote) \subseteq pointed[p]
  BY <1>1 DEF NowIsRemembered, Runs
<1>5. run[p] # "doctor" => remote = cfg[p].repo /\ remote \in pointed[p]
  BY <1>1, <1>3, <1>4, FileAssumption DEF RemoteRepos, Configs
<1> QED  BY <1>1, <1>2, <1>3, <1>5, ContinueStep DEF TypeOK

LEMMA DiscoverStep ==
    ASSUME IInv, NEW p \in Procs, Discover(p)
    PROVE  IInv'
<1> USE DEF IInv
<1>1. /\ pc[p] = "discover" /\ place' = [place EXCEPT ![p] = Discovered(Identity(p))]
      /\ Continues(p, "overlay") /\ UNCHANGED <<cfg, id>>
  BY DEF Discover, Goto, Continues, TypeOK
<1>2. /\ cfg[p] \in Configs /\ cfg[p].repo \in named[p]
      /\ \A c \in cfg[p].grants : <<cfg[p].repo, c>> \in granted[p]
  BY <1>1 DEF ConfigWasRead
<1>3. run[p] # "doctor" => id[p] = cfg[p].repo /\ id[p] \in pointed[p]
  BY <1>1 DEF RemoteWasRead
<1>4. Identity(p) \in Repos
  BY <1>2 DEF Identity, TypeOK, Configs
<1>5. place' \in [Procs -> Places \cup {Null}]
  BY <1>1, <1>4 DEF Discovered, Places, TypeOK
<1> QED  BY <1>1, <1>2, <1>3, <1>5, ContinueStep DEF TypeOK

(* What the gate lets pass, the config read or the overlay there now grants.*)
LEMMA AllowedWasGranted ==
    ASSUME IInv, NEW p \in Procs, pc[p] = "overlay", run[p] \in Commands,
           Allowed(p, Identity(p), run[p])
    PROVE  /\ id[p] = cfg[p].repo /\ id[p] \in Repos
           /\ <<id[p], run[p]>> \in granted[p]
<1> USE DEF IInv
<1>1. /\ cfg[p] \in Configs
      /\ \A c \in cfg[p].grants : <<cfg[p].repo, c>> \in granted[p]
  BY DEF ConfigWasRead
<1>2. id[p] = cfg[p].repo /\ id[p] \in Repos
  BY <1>1, FileAssumption DEF RemoteWasRead, Configs
<1>3. Identity(p) = id[p]
  BY <1>2 DEF Identity
<1>4. Grants(config, overlay) \subseteq granted[p]
  BY DEF NowIsRemembered, Runs
<1>5. CASE run[p] \in cfg[p].grants
  BY <1>1, <1>2, <1>5
<1>6. CASE run[p] \notin cfg[p].grants
  <2>1. ~OverlayFails(p, id[p]) /\ run[p] \in OverlayGrants(p, id[p])
    BY <1>3, <1>6 DEF Allowed, EffectiveGrants
  <2>2. /\ place[p] \in Places
        /\ overlay[place[p]] \in Overlays /\ overlay[place[p]].bind = id[p]
        /\ run[p] \in overlay[place[p]].grants
    BY <2>1 DEF OverlayGrants, OverlayFails, BindMatches, TypeOK
  <2>3. <<id[p], run[p]>> \in Grants(config, overlay)
    BY <1>2, <2>2 DEF Grants
  <2> QED  BY <1>2, <1>4, <2>3
<1> QED  BY <1>5, <1>6

LEMMA PassGateStep ==
    ASSUME IInv, NEW p \in Procs, PassGate(p)
    PROVE  IInv'
<1> USE DEF IInv
<1>1. /\ pc[p] = "overlay" /\ run[p] \in Commands
      /\ Allowed(p, Identity(p), run[p])
      /\ Continues(p, "request") /\ UNCHANGED <<cfg, id, place>>
  BY DEF PassGate, Goto, Continues, TypeOK
<1>2. /\ cfg[p] \in Configs /\ cfg[p].repo \in named[p]
      /\ \A c \in cfg[p].grants : <<cfg[p].repo, c>> \in granted[p]
  BY <1>1 DEF ConfigWasRead
<1>3. run[p] # "doctor" => id[p] = cfg[p].repo /\ id[p] \in pointed[p]
  BY <1>1 DEF RemoteWasRead
<1>4. <<id[p], run[p]>> \in granted[p]
  BY <1>1, AllowedWasGranted
<1> QED  BY <1>1, <1>2, <1>3, <1>4, ContinueStep DEF TypeOK
-----------------------------------------------------------------------------
(* A process ends: the only step that may add an effect, or an answer.      *)
LEMMA ExitStep ==
    ASSUME IInv, NEW p \in Procs, NEW type \in Types, Exit(p, type),
           pc[p] \notin {"idle", "exited"},
           UNCHANGED <<files, named, pointed, granted, quiet, promise>>,
           report' \in Reports \cup {Null},
           \/ effects' = effects
           \/ /\ effects' = effects \cup {Effect(p)} /\ pc[p] = "request"
              /\ type \in {"written", "failed", "none"},
           type = "written" =>
             \E e \in effects' : e.repo \in pointed[p] /\ e.command = run[p],
           type \in {"doctor_pass", "doctor_fail"} => run[p] = "doctor"
    PROVE  IInv'
<1> USE DEF IInv
<1>0. /\ pc' = [pc EXCEPT ![p] = "exited"]
      /\ run' = run
      /\ out' = [out EXCEPT ![p] = type]
      /\ \E overflow \in BOOLEAN : answer' = [answer EXCEPT ![p] = Answer(type, overflow)]
      /\ cfg' = [cfg EXCEPT ![p] = Null]
      /\ id' = [id EXCEPT ![p] = Null]
      /\ place' = [place EXCEPT ![p] = Null]
  BY DEF Exit, Goto
<1>1. \A q \in Procs : q # p =>
        /\ pc'[q] = pc[q] /\ out'[q] = out[q] /\ answer'[q] = answer[q]
        /\ cfg'[q] = cfg[q] /\ id'[q] = id[q]
  BY <1>0 DEF TypeOK
<1>2. pc'[p] = "exited" /\ out'[p] = type
  BY <1>0 DEF TypeOK
<1>3. pc[p] = "request" =>
        /\ run[p] \in Commands /\ id[p] \in Repos
        /\ id[p] \in named[p] /\ id[p] \in pointed[p]
        /\ <<id[p], run[p]>> \in granted[p]
  <2> HAVE pc[p] = "request"
  <2>1. run[p] \in Commands /\ <<id[p], run[p]>> \in granted[p]
    BY DEF GateWasPassed
  <2>2. run[p] # "doctor"
    BY <2>1, FileAssumption
  <2>3. /\ id[p] = cfg[p].repo /\ id[p] \in pointed[p]
        /\ cfg[p] \in Configs /\ cfg[p].repo \in named[p]
    BY <2>2 DEF RemoteWasRead, ConfigWasRead
  <2> QED  BY <2>1, <2>3 DEF Configs
<1>4. effects' # effects => Effect(p) \in [by : Procs, repo : Repos, command : Commands]
  BY <1>3 DEF Effect
<1>5. TypeOK'
  <2>1. pc' \in [Procs -> Steps] /\ out' \in [Procs -> Types]
    BY <1>0 DEF TypeOK, Steps
  <2>2. answer' \in [Procs -> {"result", "error", Null}]
    BY <1>0 DEF TypeOK, Answer
  <2>3. /\ cfg' \in [Procs -> Configs \cup {Null}] /\ id' \in [Procs -> Repos \cup {Null}]
        /\ place' \in [Procs -> Places \cup {Null}]
    BY <1>0 DEF TypeOK
  <2>4. effects' \subseteq [by : Procs, repo : Repos, command : Commands]
    BY <1>4 DEF TypeOK
  <2> QED  BY <1>0, <2>1, <2>2, <2>3, <2>4 DEF TypeOK
<1>6. NowIsRemembered'
  BY <1>1, <1>2 DEF NowIsRemembered, Runs
<1>7. ConfigWasRead' /\ RemoteWasRead' /\ GateWasPassed'
  BY <1>0, <1>1, <1>2 DEF ConfigWasRead, RemoteWasRead, GateWasPassed
<1>8. AnswersAtExit'
  BY <1>1, <1>2 DEF AnswersAtExit
<1>9. \A e \in effects : e.by \in Procs /\ e.by # p
  BY DEF WritersExited, TypeOK
<1>10. WritersExited'
  BY <1>1, <1>2, <1>9 DEF WritersExited, Effect
<1>11. WriteWasGranted'
  <2> SUFFICES ASSUME NEW e \in effects'
               PROVE  /\ e.repo \in named[e.by] \cap pointed[e.by]
                      /\ <<e.repo, e.command>> \in granted[e.by]
    BY DEF WriteWasGranted
  <2>1. CASE e \in effects
    BY <2>1 DEF WriteWasGranted
  <2>2. CASE e \notin effects
    <3>1. e = Effect(p) /\ pc[p] = "request"
      BY <2>2
    <3>2. e.by = p /\ e.repo = id[p] /\ e.command = run[p]
      BY <3>1 DEF Effect
    <3> QED  BY <1>3, <3>1, <3>2
  <2> QED  BY <2>1, <2>2
<1>12. ResultIsTrue'
  <2> SUFFICES ASSUME NEW q \in Procs, run[q] \in Commands, answer'[q] = "result"
               PROVE  \E e \in effects' : e.repo \in pointed[q] /\ e.command = run[q]
    BY <1>0 DEF ResultIsTrue
  <2>1. CASE q # p
    BY <1>1, <2>1 DEF ResultIsTrue
  <2>2. CASE q = p
    <3>1. type \in {"written", "doctor_pass"}
      BY <1>0, <2>2 DEF TypeOK, Answer, IsOk
    <3>2. type = "written"
      BY <2>2, <3>1, FileAssumption
    <3> QED  BY <2>2, <3>2
  <2> QED  BY <2>1, <2>2
<1> QED  BY <1>5, <1>6, <1>7, <1>8, <1>10, <1>11, <1>12
-----------------------------------------------------------------------------
(* One step per action.                                                     *)
LEMMA NextInvariant == IInv /\ [Next]_vars => IInv'
<1> SUFFICES ASSUME IInv, [Next]_vars PROVE IInv'
  OBVIOUS
<1>0. TypeOK
  BY DEF IInv
<1>1. CASE UNCHANGED vars
  BY <1>1 DEF vars, IInv, TypeOK, NowIsRemembered, ConfigWasRead, RemoteWasRead,
              GateWasPassed, AnswersAtExit, WritersExited, WriteWasGranted, ResultIsTrue, Runs
<1>2. ASSUME NEW f \in Configs \cup {Malformed}, EditConfig(f) PROVE IInv'
  BY <1>0, <1>2, EditStep DEF EditConfig, TypeOK
<1>3. ASSUME NEW r \in Repos \cup {Null}, EditRemote(r) PROVE IInv'
  BY <1>0, <1>3, EditStep DEF EditRemote, TypeOK
<1>4. ASSUME NEW l \in Places, NEW o \in Overlays \cup {Absent, Malformed}, EditOverlay(l, o)
      PROVE  IInv'
  <2>1. overlay' \in [Places -> Overlays \cup {Absent, Malformed}]
    BY <1>0, <1>4 DEF EditOverlay, TypeOK
  <2>2. UNCHANGED <<config, remote>> /\ Edit
    BY <1>4 DEF EditOverlay
  <2> QED  BY <1>0, <2>1, <2>2, EditStep DEF TypeOK
<1>5. ASSUME NEW p \in Procs, NEW what \in Commands \cup {"doctor"}, Call(p, what)
      PROVE  IInv'
  BY <1>5, CallStep
<1>6. ASSUME NEW p \in Procs, Child(p) PROVE IInv'
  <2> USE DEF Types
  <2>0. report \in Reports \cup {Null}
    BY <1>0 DEF TypeOK
  <2>1. CASE LoadConfig(p)
    BY <2>1, LoadConfigStep
  <2>2. CASE ConfigUnusable(p)
    BY <2>0, <2>2, ExitStep DEF ConfigUnusable
  <2>3. CASE DoctorConfigUnusable(p)
    <3>1. \A live \in BOOLEAN : Report(FALSE, {}, live) \in Reports
      BY DEF Report, Reports
    <3> QED  BY <2>0, <2>3, <3>1, ExitStep DEF DoctorConfigUnusable, DoctorExits
  <2>4. CASE ReadRemote(p)
    BY <2>4, ReadRemoteStep
  <2>5. CASE RemoteUnusable(p)
    BY <2>0, <2>5, ExitStep DEF RemoteUnusable
  <2>6. CASE Discover(p)
    BY <2>6, DiscoverStep
  <2>7. CASE PassGate(p)
    BY <2>7, PassGateStep
  <2>8. CASE RefuseAtGate(p)
    BY <2>0, <2>8, ExitStep DEF RefuseAtGate
  <2>9. CASE DoctorReports(p)
    <3>1. PICK live \in BOOLEAN, reachable \in BOOLEAN :
            DoctorExits(p, DoctorOk(p) /\ (live => ProbeOk(p, reachable)),
                        Ready(p, Identity(p)), live)
      BY <2>9 DEF DoctorReports
    <3> DEFINE ok == DoctorOk(p) /\ (live => ProbeOk(p, reachable))
               type == IF ok THEN "doctor_pass" ELSE "doctor_fail"
    <3>2. Ready(p, Identity(p)) \subseteq Commands
      BY <1>0 DEF Ready, TypeOK
    <3>3. Report(ok, Ready(p, Identity(p)), live) \in Reports
      <4> HIDE DEF ok
      <4>1. ok \in BOOLEAN
        BY DEF ok
      <4> QED  BY <3>2, <4>1 DEF Report, Reports
    <3>4. /\ Exit(p, type)
          /\ report' \in Reports \cup {Null}
          /\ UNCHANGED <<named, pointed, granted, quiet, promise>>
      BY <2>0, <3>1, <3>3 DEF DoctorExits
    <3>5. UNCHANGED <<files, effects>> /\ pc[p] = "overlay" /\ run[p] = "doctor"
      BY <2>9 DEF DoctorReports
    <3>6. type \in {"doctor_pass", "doctor_fail"}
      OBVIOUS
    <3> HIDE DEF type
    <3> QED  BY <3>4, <3>5, <3>6, ExitStep
  <2>10. CASE Write(p)
    <3>1. PICK type \in {"written", "failed"} : Exit(p, type)
      BY <2>10 DEF Write
    <3>2. /\ UNCHANGED <<files, history>> /\ effects' = effects \cup {Effect(p)}
          /\ pc[p] = "request"
      BY <2>10 DEF Write
    <3>3. Effect(p).repo \in pointed[p] /\ Effect(p).command = run[p]
      <4>1. run[p] \in Commands /\ run[p] # "doctor"
        BY <3>2, FileAssumption DEF IInv, GateWasPassed
      <4> QED  BY <3>2, <4>1 DEF IInv, RemoteWasRead, Effect
    <3> QED  BY <2>0, <3>1, <3>2, <3>3, ExitStep
  <2>11. CASE WriteReuses(p)
    <3>1. run[p] # "doctor" /\ pc[p] = "request"
      BY <2>11, FileAssumption DEF WriteReuses, IInv, GateWasPassed
    <3>2. id[p] \in pointed[p]
      BY <3>1 DEF IInv, RemoteWasRead
    <3> QED  BY <2>0, <2>11, <3>1, <3>2, ExitStep DEF WriteReuses
  <2>12. CASE WriteFails(p)
    BY <2>0, <2>12, ExitStep DEF WriteFails
  <2>13. CASE TokenMissing(p)
    BY <2>0, <2>13, ExitStep DEF TokenMissing
  <2>14. CASE Killed(p)
    <3>1. \/ effects' = effects
          \/ effects' = effects \cup {Effect(p)} /\ pc[p] = "request"
      BY <2>14 DEF Killed
    <3>2. /\ Exit(p, "none") /\ UNCHANGED <<files, history>>
          /\ pc[p] \notin {"idle", "exited"}
      BY <2>14 DEF Killed
    <3> QED  BY <2>0, <3>1, <3>2, ExitStep
  <2>15. CASE BaseRefused(p)
    BY <2>0, <2>15, ExitStep DEF BaseRefused
  <2> QED  BY <1>6, <2>1, <2>2, <2>3, <2>4, <2>5, <2>6, <2>7, <2>8, <2>9, <2>10, <2>11,
              <2>12, <2>13, <2>14, <2>15 DEF Child
<1> QED  BY <1>1, <1>2, <1>3, <1>4, <1>5, <1>6 DEF Next

(* The invariant of the gate: what a running process has read, and what     *)
(* the files say now, is among what they said while it ran.                 *)
THEOREM Invariant == Spec => []IInv
<1> QED  BY InitInvariant, NextInvariant, PTL DEF Spec

(* Types of all the variables.                                              *)
THEOREM TypeCorrect == Spec => []TypeOK
<1>1. IInv => TypeOK
  BY DEF IInv
<1> QED  BY <1>1, Invariant, PTL

(* A process writes only to a repository that config and remote named while *)
(* it ran, and only what that repository's files granted while it ran.      *)
THEOREM WritesAreGranted == Spec => []WriteWasGranted
<1>1. IInv => WriteWasGranted
  BY DEF IInv
<1> QED  BY <1>1, Invariant, PTL

(* A success the caller is told of is in effect; a refusal wrote nothing.   *)
THEOREM AnswersAreTrue == Spec => []AnswerIsTrue
<1>1. IInv => AnswerIsTrue
  BY DEF IInv, ResultIsTrue, WritersExited, AnswerIsTrue
<1> QED  BY <1>1, Invariant, PTL
-----------------------------------------------------------------------------
(* Doctor foretells the gate of a write, for any number of tool calls,      *)
(* repositories and edits: both are compared with what the files, as they   *)
(* are now, decide.                                                         *)

(* The identity the files have now, the overlay it leads to, and what the   *)
(* gate and doctor would decide if they read all files at this moment.      *)
Subject == IF remote = Null THEN config.repo ELSE remote
PlaceNow == Discovered(Subject)
UnusableNow ==
    PlaceNow # Null /\ (overlay[PlaceNow] \in {Absent, Malformed}
                        \/ ~BindMatches(overlay[PlaceNow], Subject))
AllowedNow(c) ==
    ~UnusableNow /\ (c \in config.grants
                     \/ (PlaceNow # Null /\ c \in overlay[PlaceNow].grants))
OkNow == config \in Configs /\ remote = config.repo /\ ~UnusableNow
ReadyNow ==
    IF config \in Configs THEN {c \in supported : token /\ AllowedNow(c)} ELSE {}
BaseNow == config \in Configs /\ config.base

(* What a report says of the files: exactly which commands are ready.  That *)
(* it passed means that the files agree, and that they agree means that it  *)
(* passed if it did not probe; a probe that passed took the base URL.       *)
Foretells(r) ==
    /\ r.ready = ReadyNow
    /\ r.ok => OkNow
    /\ r.live \/ (OkNow => r.ok)
    /\ (r.live /\ r.ok) => BaseNow

(* A report that stands foretells the gate; a process that nobody disturbed *)
(* was promised so, has read what the files still say, and is past the gate *)
(* only if they allow it.                                                   *)
ReportStands == report # Null => Foretells(report)
QuietReads(p) ==
    (quiet[p] /\ Runs(p)) =>
        /\ promise[p] # Null => Foretells(promise[p])
        /\ pc[p] \in {"remote", "discover", "overlay", "request"} =>
             config \in Configs /\ cfg[p] = config
        /\ pc[p] \in {"discover", "overlay", "request"} => id[p] = remote
        /\ pc[p] \in {"overlay", "request"} => place[p] = PlaceNow
        /\ pc[p] = "request" => OkNow /\ run[p] \in supported /\ AllowedNow(run[p])
Foreseen(p) ==
    (quiet[p] /\ promise[p] # Null /\ run[p] \in Commands) =>
        /\ (\E e \in effects : e.by = p) =>
             run[p] \in promise[p].ready /\ (promise[p].ok \/ promise[p].live)
        /\ out[p] = "refused" => ~(promise[p].ok /\ run[p] \in promise[p].ready)
        /\ out[p] = "base_refused" => ~(promise[p].ok /\ promise[p].live)

DInv == IInv /\ ReportStands /\ \A p \in Procs : QuietReads(p) /\ Foreseen(p)
-----------------------------------------------------------------------------
(* The verdict is a function of the files.                                  *)
LEMMA VerdictStays ==
    ASSUME UNCHANGED files
    PROVE  /\ OkNow' = OkNow /\ ReadyNow' = ReadyNow /\ BaseNow' = BaseNow
           /\ PlaceNow' = PlaceNow
           /\ \A c : AllowedNow(c)' = AllowedNow(c)
BY DEF OkNow, ReadyNow, BaseNow, AllowedNow, UnusableNow, PlaceNow, Subject, Discovered,
       BindMatches

(* What an undisturbed process sees at the gate is the verdict.             *)
LEMMA QuietSeesVerdict ==
    ASSUME IInv, NEW p \in Procs, QuietReads(p), quiet[p], pc[p] = "overlay"
    PROVE  /\ Identity(p) = Subject
           /\ OverlayFails(p, Identity(p)) = UnusableNow
           /\ \A c : Allowed(p, Identity(p), c) <=> AllowedNow(c)
           /\ DoctorOk(p) = OkNow /\ Ready(p, Identity(p)) = ReadyNow
<1>1. config \in Configs /\ cfg[p] = config /\ id[p] = remote /\ place[p] = PlaceNow
  BY DEF QuietReads, Runs
<1>2. Identity(p) = Subject
  BY <1>1 DEF Identity, Subject
<1>3. OverlayFails(p, Identity(p)) = UnusableNow
  BY <1>1, <1>2 DEF OverlayFails, UnusableNow
<1>4. ASSUME NEW c PROVE Allowed(p, Identity(p), c) <=> AllowedNow(c)
  BY <1>1, <1>2, <1>3 DEF Allowed, AllowedNow, EffectiveGrants, OverlayGrants
<1>5. DoctorOk(p) = OkNow
  BY <1>1, <1>3 DEF DoctorOk, OkNow
<1>6. Ready(p, Identity(p)) = ReadyNow
  BY <1>1, <1>4 DEF Ready, ReadyNow
<1> QED  BY <1>2, <1>3, <1>4, <1>5, <1>6

LEMMA DoctorInit == Init => DInv
<1> SUFFICES ASSUME Init PROVE DInv
  OBVIOUS
<1>1. IInv
  BY InitInvariant
<1>2. ReportStands /\ \A p \in Procs : QuietReads(p) /\ Foreseen(p)
  BY DEF Init, ReportStands, QuietReads, Foreseen
<1> QED  BY <1>1, <1>2 DEF DInv

LEMMA DoctorEdit ==
    ASSUME DInv, Edit
    PROVE  ReportStands' /\ \A p \in Procs : QuietReads(p)' /\ Foreseen(p)'
<1>1. /\ UNCHANGED <<pc, run, out, effects, promise>> /\ report' = Null
      /\ quiet' = [p \in Procs |-> quiet[p] /\ ~Runs(p)]
  BY DEF Edit
<1>2. ASSUME NEW p \in Procs PROVE QuietReads(p)' /\ Foreseen(p)'
  <2>1. quiet'[p] => quiet[p] /\ ~Runs(p)
    BY <1>1
  <2>2. Runs(p)' = Runs(p)
    BY <1>1 DEF Runs
  <2>3. QuietReads(p)'
    BY <2>1, <2>2 DEF QuietReads
  <2>4. Foreseen(p)'
    BY <1>1, <2>1 DEF Foreseen, DInv
  <2> QED  BY <2>3, <2>4
<1> QED  BY <1>1, <1>2 DEF ReportStands

(* No other process's step touches what the two facts about one are made of.*)
LEMMA DoctorOthers ==
    ASSUME DInv, NEW p \in Procs, UNCHANGED files,
           NEW q \in Procs, q # p,
           /\ pc'[q] = pc[q] /\ run'[q] = run[q] /\ cfg'[q] = cfg[q] /\ id'[q] = id[q]
           /\ place'[q] = place[q] /\ out'[q] = out[q] /\ quiet'[q] = quiet[q]
           /\ promise'[q] = promise[q],
           effects' \in {effects, effects \cup {Effect(p)}}
    PROVE  QuietReads(q)' /\ Foreseen(q)'
<1>1. QuietReads(q) /\ Foreseen(q)
  BY DEF DInv
<1>2. Runs(q)' = Runs(q)
  BY DEF Runs
<1>3. QuietReads(q)'
  BY <1>1, <1>2, VerdictStays DEF QuietReads, Foretells
<1>4. (\E e \in effects' : e.by = q) => \E e \in effects : e.by = q
  BY DEF Effect
<1> QED  BY <1>1, <1>3, <1>4 DEF Foreseen

LEMMA DoctorCall ==
    ASSUME DInv, NEW p \in Procs, NEW what \in Commands \cup {"doctor"}, Call(p, what)
    PROVE  ReportStands' /\ \A q \in Procs : QuietReads(q)' /\ Foreseen(q)'
<1>0. TypeOK /\ IInv
  BY DEF DInv, IInv
<1>1. /\ pc[p] = "idle"
      /\ pc' = [pc EXCEPT ![p] = "config"] /\ run' = [run EXCEPT ![p] = what]
      /\ quiet' = [quiet EXCEPT ![p] = TRUE] /\ promise' = [promise EXCEPT ![p] = report]
      /\ UNCHANGED <<files, reads, out, effects, report>>
  BY DEF Call
<1>2. ReportStands'
  BY <1>1, VerdictStays DEF DInv, ReportStands, Foretells
<1>3. ASSUME NEW q \in Procs, q # p PROVE QuietReads(q)' /\ Foreseen(q)'
  BY <1>0, <1>1, <1>3, DoctorOthers DEF TypeOK
<1>4. QuietReads(p)'
  BY <1>0, <1>1, VerdictStays DEF QuietReads, TypeOK, DInv, ReportStands, Foretells
<1>5. Foreseen(p)'
  <2>1. out[p] = "none" /\ ~\E e \in effects : e.by = p
    BY <1>0, <1>1 DEF IInv, AnswersAtExit, WritersExited
  <2> QED  BY <1>1, <2>1 DEF Foreseen
<1> QED  BY <1>2, <1>3, <1>4, <1>5
-----------------------------------------------------------------------------
(* A step by which the process goes on.                                     *)
LEMMA DoctorContinues ==
    ASSUME DInv, NEW p \in Procs, NEW step, Continues(p, step), QuietReads(p)',
           place' \in {place, [place EXCEPT ![p] = Discovered(Identity(p))]}
    PROVE  ReportStands' /\ \A q \in Procs : QuietReads(q)' /\ Foreseen(q)'
<1>0. TypeOK /\ IInv
  BY DEF DInv, IInv
<1>1. /\ UNCHANGED <<files, run, out, effects, quiet, promise, report>>
      /\ pc' = [pc EXCEPT ![p] = step]
      /\ \A q \in Procs : q # p =>
           pc'[q] = pc[q] /\ cfg'[q] = cfg[q] /\ id'[q] = id[q] /\ place'[q] = place[q]
  BY <1>0 DEF Continues, TypeOK
<1>2. ReportStands'
  BY <1>1, VerdictStays DEF DInv, ReportStands, Foretells
<1>3. ASSUME NEW q \in Procs, q # p PROVE QuietReads(q)' /\ Foreseen(q)'
  BY <1>1, <1>3, DoctorOthers
<1>4. Foreseen(p)'
  BY <1>1 DEF Foreseen, DInv
<1> QED  BY <1>2, <1>3, <1>4

LEMMA QuietLoadConfig ==
    ASSUME DInv, NEW p \in Procs, LoadConfig(p)
    PROVE  QuietReads(p)'
<1>1. TypeOK /\ QuietReads(p)
  BY DEF DInv, IInv
<1>2. /\ pc[p] = "config" /\ pc'[p] = "remote" /\ config \in Configs /\ cfg'[p] = config
      /\ UNCHANGED <<files, run, quiet, promise>>
  BY <1>1 DEF LoadConfig, Goto, TypeOK
<1> QED  BY <1>1, <1>2, VerdictStays DEF QuietReads, Runs, Foretells

LEMMA QuietReadRemote ==
    ASSUME DInv, NEW p \in Procs, ReadRemote(p)
    PROVE  QuietReads(p)'
<1>1. TypeOK /\ QuietReads(p)
  BY DEF DInv, IInv
<1>2. /\ pc[p] = "remote" /\ pc'[p] = "discover" /\ id'[p] = remote
      /\ UNCHANGED <<files, run, cfg, quiet, promise>>
  BY <1>1 DEF ReadRemote, Goto, TypeOK
<1> QED  BY <1>1, <1>2, VerdictStays DEF QuietReads, Runs, Foretells

LEMMA QuietDiscover ==
    ASSUME DInv, NEW p \in Procs, Discover(p)
    PROVE  QuietReads(p)'
<1>1. TypeOK /\ QuietReads(p)
  BY DEF DInv, IInv
<1>2. /\ pc[p] = "discover" /\ pc'[p] = "overlay" /\ place'[p] = Discovered(Identity(p))
      /\ UNCHANGED <<files, run, cfg, id, quiet, promise>>
  BY <1>1 DEF Discover, Goto, TypeOK
<1>3. quiet[p] => Discovered(Identity(p)) = PlaceNow
  BY <1>1, <1>2 DEF QuietReads, Runs, Identity, PlaceNow, Subject
<1> QED  BY <1>1, <1>2, <1>3, VerdictStays DEF QuietReads, Runs, Foretells

LEMMA QuietPassGate ==
    ASSUME DInv, NEW p \in Procs, PassGate(p)
    PROVE  QuietReads(p)'
<1>1. TypeOK /\ IInv /\ QuietReads(p)
  BY DEF DInv, IInv
<1>2. /\ pc[p] = "overlay" /\ pc'[p] = "request" /\ run[p] \in supported
      /\ Allowed(p, Identity(p), run[p])
      /\ UNCHANGED <<files, run, cfg, id, place, quiet, promise>>
  BY <1>1 DEF PassGate, Goto, TypeOK
<1>3. run[p] # "doctor"
  BY <1>1, <1>2, FileAssumption DEF TypeOK
<1>4. id[p] = cfg[p].repo
  BY <1>1, <1>2, <1>3 DEF IInv, RemoteWasRead
<1>5. quiet[p] => AllowedNow(run[p]) /\ OkNow
  <2> HAVE quiet[p]
  <2>1. AllowedNow(run[p])
    BY <1>1, <1>2, QuietSeesVerdict
  <2>2. config \in Configs /\ cfg[p] = config /\ id[p] = remote
    BY <1>1, <1>2 DEF QuietReads, Runs
  <2> QED  BY <1>4, <2>1, <2>2 DEF AllowedNow, OkNow
<1> QED  BY <1>1, <1>2, <1>5, VerdictStays DEF QuietReads, Runs, Foretells
-----------------------------------------------------------------------------
(* A process ends.  Undisturbed, it leaves an effect only when the verdict  *)
(* makes its command ready, and refuses only when it does not, or, the      *)
(* provider, when the base URL is none for it.                              *)
LEMMA DoctorExit ==
    ASSUME DInv, NEW p \in Procs, NEW type, Exit(p, type), Runs(p),
           UNCHANGED <<files, quiet, promise>>, report' # Null => Foretells(report'),
           \/ effects' = effects
           \/ effects' = effects \cup {Effect(p)} /\ pc[p] = "request" /\ token,
           (type = "refused" /\ quiet[p] /\ run[p] \in Commands) =>
                ~(OkNow /\ run[p] \in ReadyNow),
           (type = "base_refused" /\ quiet[p]) => ~BaseNow
    PROVE  ReportStands' /\ \A q \in Procs : QuietReads(q)' /\ Foreseen(q)'
<1>0. TypeOK /\ IInv /\ QuietReads(p)
  BY DEF DInv, IInv
<1>1. /\ UNCHANGED <<files, run, quiet, promise>>
      /\ pc' = [pc EXCEPT ![p] = "exited"] /\ out' = [out EXCEPT ![p] = type]
      /\ cfg' = [cfg EXCEPT ![p] = Null] /\ id' = [id EXCEPT ![p] = Null]
      /\ place' = [place EXCEPT ![p] = Null]
      /\ effects' \in {effects, effects \cup {Effect(p)}}
  BY DEF Exit, Goto
<1>2. ReportStands'
  BY <1>1, VerdictStays DEF ReportStands, Foretells
<1>3. ASSUME NEW q \in Procs, q # p PROVE QuietReads(q)' /\ Foreseen(q)'
  BY <1>0, <1>1, <1>3, DoctorOthers DEF TypeOK
<1>4. pc'[p] = "exited" /\ out'[p] = type /\ QuietReads(p)'
  BY <1>0, <1>1 DEF TypeOK, QuietReads, Runs
<1>5. Foreseen(p)'
  <2> SUFFICES ASSUME quiet[p], promise[p] # Null, run[p] \in Commands
               PROVE  /\ (\E e \in effects' : e.by = p) =>
                           /\ run[p] \in promise[p].ready
                           /\ promise[p].ok \/ promise[p].live
                      /\ type = "refused" => ~(promise[p].ok /\ run[p] \in promise[p].ready)
                      /\ type = "base_refused" => ~(promise[p].ok /\ promise[p].live)
    BY <1>1, <1>4 DEF Foreseen
  <2>1. Foretells(promise[p])
    BY <1>0 DEF QuietReads
  <2>2. ~\E e \in effects : e.by = p
    BY <1>0 DEF IInv, WritersExited, Runs
  <2>3. (\E e \in effects' : e.by = p) => pc[p] = "request" /\ token
    BY <2>2
  <2>4. (pc[p] = "request" /\ token) => OkNow /\ run[p] \in ReadyNow
    BY <1>0 DEF QuietReads, Runs, ReadyNow
  <2> QED  BY <2>1, <2>3, <2>4 DEF Foretells
<1> QED  BY <1>2, <1>3, <1>4, <1>5
-----------------------------------------------------------------------------
(* One step per action; the invariant of WriteGateProofs is preserved.      *)
LEMMA DoctorNext == DInv /\ [Next]_vars => DInv'
<1> SUFFICES ASSUME DInv, [Next]_vars
             PROVE  ReportStands' /\ \A q \in Procs : QuietReads(q)' /\ Foreseen(q)'
  BY NextInvariant DEF DInv
<1>0. TypeOK /\ IInv /\ ReportStands /\ \A q \in Procs : QuietReads(q)
  BY DEF DInv, IInv
<1>1. CASE UNCHANGED vars
  <2>1. UNCHANGED <<files, pc, run, cfg, id, place, out, effects, quiet, promise, report>>
    BY <1>1 DEF vars
  <2>2. \A q \in Procs : QuietReads(q)'
    BY <1>0, <2>1, VerdictStays DEF QuietReads, Runs, Foretells
  <2> QED  BY <1>0, <2>1, <2>2, VerdictStays DEF ReportStands, Foreseen, DInv, Foretells
<1>2. CASE Edit
  BY <1>2, DoctorEdit
<1>3. ASSUME NEW p \in Procs, NEW what \in Commands \cup {"doctor"}, Call(p, what)
      PROVE  ReportStands' /\ \A q \in Procs : QuietReads(q)' /\ Foreseen(q)'
  BY <1>3, DoctorCall
<1>4. ASSUME NEW p \in Procs, Child(p)
      PROVE  ReportStands' /\ \A q \in Procs : QuietReads(q)' /\ Foreseen(q)'
  <2>0. report # Null => Foretells(report)
    BY <1>0 DEF ReportStands
  <2>1. CASE LoadConfig(p)
    <3>1. Continues(p, "remote") /\ place' = place
      BY <1>0, <2>1 DEF LoadConfig, Goto, Continues, TypeOK
    <3> QED  BY <2>1, <3>1, QuietLoadConfig, DoctorContinues
  <2>2. CASE ReadRemote(p)
    <3>1. Continues(p, "discover") /\ place' = place
      BY <1>0, <2>2 DEF ReadRemote, Goto, Continues, TypeOK
    <3> QED  BY <2>2, <3>1, QuietReadRemote, DoctorContinues
  <2>3. CASE Discover(p)
    <3>1. /\ Continues(p, "overlay")
          /\ place' = [place EXCEPT ![p] = Discovered(Identity(p))]
      BY <1>0, <2>3 DEF Discover, Goto, Continues, TypeOK
    <3> QED  BY <2>3, <3>1, QuietDiscover, DoctorContinues
  <2>4. CASE PassGate(p)
    <3>1. Continues(p, "request") /\ place' = place
      BY <1>0, <2>4 DEF PassGate, Goto, Continues, TypeOK
    <3> QED  BY <2>4, <3>1, QuietPassGate, DoctorContinues
  <2>5. CASE ConfigUnusable(p)
    <3>1. ~OkNow
      BY <2>5 DEF ConfigUnusable, OkNow
    <3>2. /\ Exit(p, "refused") /\ Runs(p) /\ UNCHANGED <<files, effects, history>>
      BY <2>5 DEF ConfigUnusable, Runs
    <3> QED  BY <2>0, <3>1, <3>2, DoctorExit
  <2>6. CASE RemoteUnusable(p)
    <3>1. quiet[p] => ~OkNow
      BY <1>0, <2>6 DEF RemoteUnusable, OkNow, QuietReads, Runs
    <3>2. /\ Exit(p, "refused") /\ Runs(p) /\ UNCHANGED <<files, effects, history>>
      BY <2>6 DEF RemoteUnusable, Runs
    <3> QED  BY <2>0, <3>1, <3>2, DoctorExit
  <2>7. CASE RefuseAtGate(p)
    <3>1. quiet[p] => ~(OkNow /\ run[p] \in ReadyNow)
      BY <1>0, <2>7, QuietSeesVerdict DEF RefuseAtGate, ReadyNow
    <3>2. /\ Exit(p, "refused") /\ Runs(p) /\ UNCHANGED <<files, effects, history>>
      BY <2>7 DEF RefuseAtGate, Runs
    <3> QED  BY <2>0, <3>1, <3>2, DoctorExit
  <2>8. CASE TokenMissing(p)
    <3>1. run[p] \notin ReadyNow
      BY <2>8 DEF TokenMissing, ReadyNow
    <3>2. /\ Exit(p, "refused") /\ Runs(p) /\ UNCHANGED <<files, effects, history>>
      BY <2>8 DEF TokenMissing, Runs
    <3> QED  BY <2>0, <3>1, <3>2, DoctorExit
  <2>9. CASE DoctorConfigUnusable(p)
    <3>1. PICK live \in BOOLEAN : DoctorExits(p, FALSE, {}, live)
      BY <2>9 DEF DoctorConfigUnusable
    <3>2. Foretells(Report(FALSE, {}, live))
      BY <2>9 DEF DoctorConfigUnusable, Foretells, OkNow, ReadyNow, Report
    <3>3. /\ Exit(p, "doctor_fail") /\ UNCHANGED <<quiet, promise>>
          /\ report' # Null => Foretells(report')
      BY <2>0, <3>1, <3>2 DEF DoctorExits
    <3>4. Runs(p) /\ UNCHANGED <<files, effects>>
      BY <2>9 DEF DoctorConfigUnusable, Runs
    <3> QED  BY <3>3, <3>4, DoctorExit
  <2>10. CASE DoctorReports(p)
    <3>1. PICK live \in BOOLEAN, reachable \in BOOLEAN :
            DoctorExits(p, DoctorOk(p) /\ (live => ProbeOk(p, reachable)),
                        Ready(p, Identity(p)), live)
      BY <2>10 DEF DoctorReports
    <3> DEFINE ok == DoctorOk(p) /\ (live => ProbeOk(p, reachable))
    <3>2. /\ pc[p] = "overlay" /\ run[p] = "doctor" /\ Runs(p)
          /\ UNCHANGED <<files, effects>>
      BY <2>10 DEF DoctorReports, Runs
    <3>3. quiet[p] => Foretells(Report(ok, Ready(p, Identity(p)), live))
      <4> HAVE quiet[p]
      <4>1. (DoctorOk(p) <=> OkNow) /\ Ready(p, Identity(p)) = ReadyNow
        BY <1>0, <3>2, QuietSeesVerdict
      <4>2. config \in Configs /\ cfg[p] = config
        BY <1>0, <3>2 DEF QuietReads
      <4>3. (ok => OkNow) /\ (live \/ (OkNow => ok)) /\ ((live /\ ok) => BaseNow)
        BY <4>1, <4>2 DEF ProbeOk, CanAsk, BaseNow
      <4> HIDE DEF ok
      <4> QED  BY <4>1, <4>3 DEF Foretells, Report
    <3>4. \E type : /\ Exit(p, type) /\ UNCHANGED <<quiet, promise>>
                    /\ type \in {"doctor_pass", "doctor_fail"}
                    /\ report' # Null => Foretells(report')
      BY <2>0, <3>1, <3>3 DEF DoctorExits
    <3> QED  BY <3>2, <3>4, FileAssumption, DoctorExit
  <2>11. CASE Write(p)
    <3>1. PICK type \in {"written", "failed"} : Exit(p, type)
      BY <2>11 DEF Write
    <3>2. /\ pc[p] = "request" /\ token /\ Runs(p) /\ UNCHANGED <<files, history>>
          /\ effects' = effects \cup {Effect(p)}
      BY <2>11 DEF Write, CanAsk, Runs
    <3> QED  BY <2>0, <3>1, <3>2, DoctorExit
  <2>12. CASE WriteReuses(p)
    <3>1. /\ Exit(p, "written") /\ Runs(p) /\ UNCHANGED <<files, effects, history>>
      BY <2>12 DEF WriteReuses, Runs
    <3> QED  BY <2>0, <3>1, DoctorExit
  <2>13. CASE WriteFails(p)
    <3>1. /\ Exit(p, "failed") /\ Runs(p) /\ UNCHANGED <<files, effects, history>>
      BY <2>13 DEF WriteFails, Runs
    <3> QED  BY <2>0, <3>1, DoctorExit
  <2>14. CASE Killed(p)
    <3>1. /\ Exit(p, "none") /\ Runs(p) /\ UNCHANGED <<files, history>>
          /\ \/ effects' = effects
             \/ effects' = effects \cup {Effect(p)} /\ pc[p] = "request" /\ token
      BY <2>14 DEF Killed, CanAsk, Runs
    <3> QED  BY <2>0, <3>1, DoctorExit
  <2>15. CASE BaseRefused(p)
    <3>1. quiet[p] => ~BaseNow
      BY <1>0, <2>15 DEF BaseRefused, BaseNow, QuietReads, Runs
    <3>2. /\ Exit(p, "base_refused") /\ Runs(p) /\ UNCHANGED <<files, effects, history>>
      BY <2>15 DEF BaseRefused, Runs
    <3> QED  BY <2>0, <3>1, <3>2, DoctorExit
  <2> QED  BY <1>4, <2>1, <2>2, <2>3, <2>4, <2>5, <2>6, <2>7, <2>8, <2>9, <2>10, <2>11,
              <2>12, <2>13, <2>14, <2>15 DEF Child
<1> QED  BY <1>1, <1>2, <1>3, <1>4 DEF Next, EditConfig, EditRemote, EditOverlay

(* With no edit since doctor began: a write that took effect was reported   *)
(* ready, by a doctor that passed or probed; one reported ready by a doctor *)
(* that passed is refused neither by the gate nor for want of a token, nor, *)
(* if that doctor probed, for its base URL.                                 *)
THEOREM DoctorForesees == Spec => []DoctorForeseesGate
<1>1. DInv => DoctorForeseesGate
  BY DEF DInv, Foreseen, DoctorForeseesGate
<1> QED  BY <1>1, DoctorInit, DoctorNext, PTL DEF Spec
=============================================================================
