----------------------------- MODULE MCServices -----------------------------
(***************************************************************************)
(* An instance for TLC of the services that share no state with each       *)
(* other: the state space is the union of theirs, not the product. The     *)
(* focus, chosen once, is the service that acts; the others stay in their  *)
(* initial states. A service whose calls fall into independent kinds has a *)
(* focus for each kind.                                                    *)
(***************************************************************************)
EXTENDS AgentFlow, ClawSession, LoginSession, ShellSession, SandboxServer, SessionStore,
    ModelRegistry, ChatSocket

VARIABLE focus

vars == <<focus, flowVars, clawVars, loginVars, shellVars, sandboxVars, storeVars,
          registryVars, socketVars>>

Focus == {"flow", "claw deletes", "claw views", "claw chats", "logins", "codes",
          "shell", "overlaps", "supervisor", "files", "list", "sync", "document", "registry", "edits", "socket"}

ServicesInit ==
    /\ focus \in Focus
    /\ FlowInit /\ ClawInit /\ LoginInit /\ ShellInit /\ SandboxInit /\ StoreInit
    /\ RegistryInit /\ SocketInit

\* The registry of models and the chat socket
modelSocketVars == <<registryVars, socketVars>>

Alone(f, others) == focus = f /\ UNCHANGED <<focus, others>>

-----------------------------------------------------------------------------
NotFlow == <<clawVars, loginVars, shellVars, sandboxVars, storeVars, modelSocketVars>>
\* For the types only: MCAgentFlow has the instance its properties need.
FlowFocus == Alone("flow", NotFlow) /\ FlowNext

NotClaw == <<flowVars, loginVars, shellVars, sandboxVars, storeVars, modelSocketVars>>
Claw(c) ==
    \/ Alone("claw deletes", NotClaw) /\ c \notin Views
    \/ Alone("claw views", NotClaw) /\ c \notin Deletes
\* A deletion may come in the middle of a chat.
Chat == Alone("claw chats", NotClaw)
ClawFocus ==
    \/ Claw(Created) /\ BoxDies
    \/ \E c \in Calls :
        \/ Claw(c) /\ Read(c)
        \/ Claw(c) /\ Health(c)
        \/ Claw(c) /\ Act(c)
        \/ Claw(c) /\ CallFinds(c)
        \/ Claw(c) /\ Stopped(c)
        \/ Claw(c) /\ Restarted(c)
        \/ Claw(c) /\ Deleted(c)
    \/ \E p \in Provs :
        \/ Claw(p) /\ Create(p)
        \/ Claw(p) /\ Wait(p)
        \/ Claw(p) /\ ProvFinds(p)
        \/ Claw(p) /\ ProvSaves(p)
        \/ Claw(p) /\ Error(p)
ChatFocus ==
    \/ Chat /\ Join
    \/ Chat /\ CatchUp
    \/ Chat /\ Leave
    \/ Chat /\ BoxDies
    \/ \E d \in Deletes : Chat /\ (Read(d) \/ CallStep(d))
    \/ \E p \in Provs : Chat /\ ProvStep(p)
    \/ \E c \in Chats :
        \/ Chat /\ Validate(c)
        \/ Chat /\ Chunk(c)
        \/ Chat /\ ToolResult(c)
        \/ Chat /\ ChatFinds(c)
        \/ Chat /\ ChatSaves(c)
        \/ Chat /\ EndStream(c)
        \/ Chat /\ Finish(c)

\* Codes are of interest when they have been tried three times; sessions when a few
\* requests overlap.
MaxSessionRequests == 3
NotLogin == <<flowVars, clawVars, shellVars, sandboxVars, storeVars, modelSocketVars>>
Login == Alone("logins", NotLogin)
Codes == Alone("codes", NotLogin)
LoginFocus ==
    \/ \E sid \in Sids : Login /\ Expire(sid)
    \/ Codes /\ CodeExpires
    \/ \E r \in Slots :
        \/ Login /\ begun < MaxSessionRequests /\ \E op \in LoginOps \ CodeOps : Begin(r, op)
        \/ Codes /\ \E op \in CodeOps \cup AdminOps : Begin(r, op)
        \/ Login /\ Resolve(r)
        \/ Login /\ Refresh(r)
        \/ Login /\ TouchGet(r)
        \/ Login /\ TouchSet(r)
        \/ Login /\ Load(r)
        \/ Login /\ Perform(r)
        \/ Login /\ DeleteGet(r)
        \/ Login /\ Delete(r)
        \/ Login /\ Srem(r)
        \/ Login /\ Members(r)
        \/ Login /\ Wipe(r)
        \/ Login /\ NewLogin(r)
        \/ Login /\ Auth(r)
        \/ Login /\ Exists(r)
        \/ Login /\ Insert(r)
        \/ Login /\ Fetch(r)
        \/ Login /\ Update(r)
        \/ Codes /\ Fetch(r)
        \/ Codes /\ Update(r)
        \/ Codes /\ SendGet(r)
        \/ Codes /\ SendSet(r)
        \/ Codes /\ Verify(r)
        \/ Codes /\ Burn(r)
        \/ Codes /\ Wrong(r)
        \/ Codes /\ Right(r)

NotShell == <<flowVars, clawVars, loginVars, sandboxVars, storeVars, modelSocketVars>>
\* Two commands with a kill and what is typed, or three that overlap. These are alike:
\* they begin in one order, and none is refused.
ThirdCommand == CHOOSE c \in Commands : TRUE
NextCommand == CHOOSE c \in Commands : execs[c].pc = "idle"
Shell == Alone("shell", NotShell)
ShellOf(c) == Shell /\ c # ThirdCommand
Overlap == Alone("overlaps", NotShell)
AnyOf(c) == ShellOf(c) \/ Overlap
ShellFocus ==
    \/ Shell /\ Write
    \/ \E k \in Kills :
        \/ Shell /\ Kill(k)
        \/ Shell /\ Reap(k)
    \/ \E c \in Commands :
        \/ AnyOf(c) /\ PrintOutput(c)
        \/ AnyOf(c) /\ Exit(c)
        \/ AnyOf(c) /\ ReadOutput(c)
        \/ AnyOf(c) /\ EndOfOutput(c)
        \/ ShellOf(c) /\ Exec(c)
        \/ Overlap /\ execs[c].pc = "idle" /\ c = NextCommand /\ Exec(c) /\ execs'[c].pc # "closed"
        \/ AnyOf(c) /\ Terminated(c)
        \/ ShellOf(c) /\ CreateProcess(c)
        \/ Overlap /\ CreateProcess(c) /\ execs'[c].pc # "closed"
        \/ ShellOf(c) /\ Waited(c)

NotSandbox == <<flowVars, clawVars, loginVars, shellVars, storeVars, modelSocketVars>>
Sandbox(f) == Alone(f, NotSandbox) /\ supervisord # "down"
Supervisor == Sandbox("supervisor")
File == Sandbox("files")
SandboxFocus ==
    \/ Supervisor /\ SetTimeout
    \/ Supervisor /\ AutoExtend
    \/ Supervisor /\ CancelTimeout
    \/ Supervisor /\ Tick
    \/ Supervisor /\ TimeoutShutdown
    \/ \E op \in Rpc :
        \/ Supervisor /\ CallSupervisord(op)
        \/ Supervisor /\ RpcFails(op)
        \/ Supervisor /\ RpcReturns(op)
    \/ \E e \in Edits :
        \/ File /\ \E op \in EditOp, sudo \in BOOLEAN, f \in Files : BeginEdit(e, op, sudo, f)
        \/ File /\ ReadFile(e)
        \/ File /\ WriteFile(e)
        \/ File /\ CopyTemp(e)
        \/ File /\ Unlink(e)

NotStore == <<flowVars, clawVars, loginVars, shellVars, sandboxVars, modelSocketVars>>
List == Alone("list", NotStore)
\* Two calls change what the list shows. One call creates the document two runners keep
\* files in; or two more save or delete it over one runner.
Creates == CHOOSE u \in Updates : TRUE
ListOf(u) == List /\ u # Creates
Sync == Alone("sync", NotStore)
OneDocument == Alone("document", NotStore)
StoredBy(u) == ListOf(u) \/ Sync \/ OneDocument
OneRunner == CHOOSE r \in Runners : TRUE
SyncOf(r) == Sync \/ (OneDocument /\ r = OneRunner)
UpdateFocus(u) ==
    \/ ListOf(u) /\ \E op \in UpdateOp, s \in Sessions, new \in Summary :
                        BeginUpdate(u, op, s, new)
    \/ /\ Sync \/ OneDocument
       /\ u = Creates /\ \E s \in Sessions : BeginUpdate(u, "create", s, NoUpdate.new)
    \/ /\ OneDocument /\ u # Creates
       /\ \E op \in {"save", "delete"}, s \in Sessions : BeginUpdate(u, op, s, NoUpdate.new)
    \/ StoredBy(u) /\ InsertSession(u)
    \/ ListOf(u) /\ OwnProject(u)
    \/ StoredBy(u) /\ CheckSession(u)
    \/ ListOf(u) /\ SetFields(u)
    \/ StoredBy(u) /\ FindSession(u)
    \/ StoredBy(u) /\ SaveSession(u)
    \/ StoredBy(u) /\ DeleteSession(u)
    \/ ListOf(u) /\ Affected(u)
    \/ ListOf(u) /\ ClearProject(u)
    \/ ListOf(u) /\ TellAffected(u)
    \/ ListOf(u) /\ DropProject(u)
    \/ ListOf(u) /\ PutProject(u)
    \/ ListOf(u) /\ Notify(u)
    \/ ListOf(u) /\ Publish(u)
SyncFocus(r) ==
    \/ SyncOf(r) /\ \E s \in Sessions, p \in Paths : BeginSync(r, s, p)
    \/ Sync /\ \E s \in Sessions, p \in Paths : Attach(r, s, p)
    \/ SyncOf(r) /\ Lookup(r)
    \/ SyncOf(r) /\ Download(r)
    \/ SyncOf(r) /\ RemoveFile(r)
    \/ SyncOf(r) /\ UploadFile(r)
    \/ SyncOf(r) /\ AddFile(r)
    \/ SyncOf(r) /\ SyncFails(r)
StoreFocus ==
    \/ List /\ Subscribe
    \/ List /\ Snapshot
    \/ List /\ Handle
    \/ List /\ Disconnect
    \/ \E u \in Updates : UpdateFocus(u)
    \/ \E r \in Runners : SyncFocus(r)

NotRegistry == <<flowVars, clawVars, loginVars, shellVars, sandboxVars, storeVars, socketVars>>
\* Edits race each other, or one overlaps the readers.
TheEditor == CHOOSE a \in Admins : TRUE
Editing(a) ==
    \/ Alone("edits", NotRegistry)
    \/ Alone("registry", NotRegistry) /\ a = TheEditor
Reading == Alone("registry", NotRegistry)
RegistryFocus ==
    \/ Reading /\ ClockTicks
    \/ \E a \in Admins :
        \/ Editing(a) /\ CreateFinds(a)
        \/ Editing(a) /\ ImportFinds(a)
        \/ Editing(a) /\ InsertModel(a)
        \/ Editing(a) /\ UpdateReads(a)
        \/ Editing(a) /\ UpdateFinds(a)
        \/ Editing(a) /\ UpdateSaves(a)
        \/ Editing(a) /\ DeleteFinds(a)
        \/ Editing(a) /\ DeleteRemoves(a)
        \/ Editing(a) /\ Invalidate(a)
    \/ \E r \in Readers :
        \/ Reading /\ ResolveModels(r)
        \/ Reading /\ ListAll(r)
        \/ Reading /\ ListFails(r)
        \/ Reading /\ StoreList(r)

NotSocket == <<flowVars, clawVars, loginVars, shellVars, sandboxVars, storeVars, registryVars>>
Socket == Alone("socket", NotSocket)
SocketFocus ==
    \/ Socket /\ JoinFinds
    \/ Socket /\ JoinLeaves
    \/ Socket /\ Joins
    \/ Socket /\ Recalls
    \/ Socket /\ Starts
    \/ Socket /\ StopRoom
    \/ Socket /\ SendsCompleted
    \/ Socket /\ Disconnects
    \/ \E f \in Frames :
        \/ Socket /\ Refuse(f)
        \/ Socket /\ ReceiveJoin(f)
        \/ Socket /\ ReceiveStop(f)
        \/ Socket /\ ReceiveChat(f)
        \/ Socket /\ LeaveRoom(f)
        \/ Socket /\ Yields(f)
        \/ Socket /\ SendsEvent(f)
        \/ Socket /\ SendsWaiting(f)
        \/ Socket /\ ChatEnds(f)
        \/ Socket /\ SendsStatus(f)
        \/ Socket /\ SendsEnd(f)
        \/ Socket /\ Fails(f)
        \/ Socket /\ SendsError(f)
        \/ Socket /\ SendsFailed(f)

ServicesNext ==
    \/ FlowFocus \/ ClawFocus \/ ChatFocus \/ LoginFocus \/ ShellFocus \/ SandboxFocus
    \/ StoreFocus \/ RegistryFocus \/ SocketFocus

\* What can differ between two states of one focus
View ==
    <<focus, CASE focus = "flow" -> flowVars
               [] focus \in {"claw deletes", "claw views", "claw chats"} -> clawVars
               [] focus \in {"logins", "codes"} -> loginVars
               [] focus \in {"shell", "overlaps"} -> shellVars
               [] focus \in {"supervisor", "files"} -> sandboxVars
               [] focus \in {"list", "sync", "document"} -> storeVars
               [] focus \in {"registry", "edits"} -> registryVars
               [] focus = "socket" -> socketVars>>

ServicesSpec == ServicesInit /\ [][ServicesNext]_vars

\* The fairness of FairClawSpec where no one chats
FairServicesSpec ==
    /\ ServicesSpec
    /\ \A c \in Calls : WF_vars(Claw(c) /\ CallStep(c))
    /\ \A p \in Provs : WF_vars(Claw(p) /\ ProvStep(p))

\* The types of the variables of every service.
ServicesTypeOK ==
    CASE focus = "flow" -> FlowTypeOK
      [] focus \in {"claw deletes", "claw views", "claw chats"} -> ClawTypeOK
      [] focus \in {"logins", "codes"} -> LoginTypeOK
      [] focus \in {"shell", "overlaps"} -> ShellTypeOK
      [] focus \in {"supervisor", "files"} -> SandboxTypeOK
      [] focus \in {"list", "sync", "document"} -> StoreTypeOK
      [] focus \in {"registry", "edits"} -> RegistryTypeOK
      [] focus = "socket" -> SocketTypeOK

\* CreatingSettles, where the calls of a claw session act: in the other instances its
\* provisioning never begins (provision_session).
ProvisioningSettles == focus \in {"claw deletes", "claw views"} => CreatingSettles
=============================================================================
