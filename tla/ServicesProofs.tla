--------------------------- MODULE ServicesProofs ---------------------------
(***************************************************************************)
(* The instance in which the services take turns (MCServices) says of each *)
(* nothing but what its own module does: whichever acts, every service     *)
(* takes a step of its next-state relation or none. So what is proved of   *)
(* the specification of a service holds where the runs check it.           *)
(***************************************************************************)
EXTENDS MCServices, AgentFlowProofs, SocketProofs, SandboxProofs, StoreProofs

-----------------------------------------------------------------------------
\* The step of each focus

LEMMA FlowActs == ASSUME FlowFocus PROVE FlowNext /\ UNCHANGED <<focus, NotFlow>>
<1>1. UNCHANGED <<focus, NotFlow>>
    BY Zenon DEF FlowFocus, Alone
<1>2. FlowNext
    BY Zenon DEF FlowFocus, Alone
<1> QED
    BY <1>1, <1>2

LEMMA ClawActs == ASSUME ClawFocus PROVE ClawNext /\ UNCHANGED <<focus, NotClaw>>
<1>1. UNCHANGED <<focus, NotClaw>>
    BY Zenon DEF ClawFocus, Claw, Alone
<1>2. ClawNext
    BY Zenon DEF ClawFocus, ClawNext, CallStep, ProvStep
<1> QED
    BY <1>1, <1>2

LEMMA ChatActs == ASSUME ChatFocus PROVE ClawNext /\ UNCHANGED <<focus, NotClaw>>
<1>1. UNCHANGED <<focus, NotClaw>>
    BY Zenon DEF ChatFocus, Chat, Alone
<1>2. ClawNext
    BY Zenon DEF ChatFocus, Chat, Alone, ClawNext, CallStep, ProvStep, ChatStep, Calls
<1> QED
    BY <1>1, <1>2

LEMMA LoginActs == ASSUME LoginFocus PROVE LoginNext /\ UNCHANGED <<focus, NotLogin>>
<1>1. UNCHANGED <<focus, NotLogin>>
    BY Zenon DEF LoginFocus, Login, Codes, Alone
<1>2. LoginNext
    BY Zenon DEF LoginFocus, LoginNext, RequestStep, LoginOps
<1> QED
    BY <1>1, <1>2

LEMMA ShellActs == ASSUME ShellFocus PROVE ShellNext /\ UNCHANGED <<focus, NotShell>>
<1>1. UNCHANGED <<focus, NotShell>>
    BY Zenon DEF ShellFocus, AnyOf, ShellOf, Shell, Overlap, Alone
<1>2. ShellNext
    BY Zenon DEF ShellFocus, ShellNext
<1> QED
    BY <1>1, <1>2

LEMMA SandboxActs == ASSUME SandboxFocus PROVE SandboxNext /\ UNCHANGED <<focus, NotSandbox>>
<1>1. UNCHANGED <<focus, NotSandbox>>
    BY Zenon DEF SandboxFocus, Supervisor, File, Sandbox, Alone
<1>2. SandboxNext
    BY Zenon DEF SandboxFocus, Supervisor, File, Sandbox, SandboxNext, SupervisorNext, FileNext
<1> QED
    BY <1>1, <1>2

LEMMA UpdateActs ==
    ASSUME NEW u \in Updates, UpdateFocus(u)
    PROVE  ListNext /\ UNCHANGED <<focus, NotStore>>
<1>1. UNCHANGED <<focus, NotStore>>
    BY Zenon DEF UpdateFocus, ListOf, StoredBy, List, Sync, OneDocument, Alone
<1>2. /\ NoUpdate.new \in Summary
      /\ {"create", "save", "delete"} \subseteq UpdateOp
    BY DEF NoUpdate, Summary, Items, UpdateOp
<1>3. ASSUME NEW op \in UpdateOp, NEW s \in Sessions, NEW new \in Summary,
             BeginUpdate(u, op, s, new)
      PROVE  ListNext
    BY <1>3, Zenon DEF ListNext
<1>4. \/ \E op \in UpdateOp, s \in Sessions, new \in Summary : BeginUpdate(u, op, s, new)
      \/ InsertSession(u) \/ OwnProject(u) \/ CheckSession(u) \/ SetFields(u)
      \/ FindSession(u) \/ SaveSession(u) \/ DeleteSession(u)
      \/ Affected(u) \/ ClearProject(u) \/ TellAffected(u) \/ DropProject(u)
      \/ PutProject(u) \/ Notify(u) \/ Publish(u)
    BY <1>2, Zenon DEF UpdateFocus
<1> QED
    BY <1>1, <1>3, <1>4, Zenon DEF ListNext

LEMMA SyncActs ==
    ASSUME NEW r \in Runners, SyncFocus(r)
    PROVE  SyncNext /\ UNCHANGED <<focus, NotStore>>
<1>1. UNCHANGED <<focus, NotStore>>
    BY Zenon DEF SyncFocus, SyncOf, Sync, OneDocument, Alone
<1>2. SyncNext
    BY Zenon DEF SyncFocus, SyncNext
<1> QED
    BY <1>1, <1>2

LEMMA StoreActs == ASSUME StoreFocus PROVE (ListNext \/ SyncNext) /\ UNCHANGED <<focus, NotStore>>
<1>1. ASSUME Subscribe \/ Snapshot \/ Handle \/ Disconnect, List
      PROVE  ListNext /\ UNCHANGED <<focus, NotStore>>
    BY <1>1, Zenon DEF ListNext, List, Alone
<1> QED
    BY <1>1, UpdateActs, SyncActs, Zenon DEF StoreFocus

LEMMA RegistryActs == ASSUME RegistryFocus PROVE RegistryNext /\ UNCHANGED <<focus, NotRegistry>>
<1>1. UNCHANGED <<focus, NotRegistry>>
    BY Zenon DEF RegistryFocus, Editing, Reading, Alone
<1>2. RegistryNext
    BY Zenon DEF RegistryFocus, RegistryNext, AdminStep, ReaderStep
<1> QED
    BY <1>1, <1>2

LEMMA SocketActs == ASSUME SocketFocus PROVE SocketNext /\ UNCHANGED <<focus, NotSocket>>
<1>1. UNCHANGED <<focus, NotSocket>>
    BY Zenon DEF SocketFocus, Socket, Alone
<1>2. SocketNext
    BY Zenon DEF SocketFocus, SocketNext
<1> QED
    BY <1>1, <1>2

-----------------------------------------------------------------------------
\* Whichever acts, each service takes a step of its own or none.

LEMMA EachActs ==
    ServicesNext =>
        /\ focus' = focus
        /\ [FlowNext]_flowVars /\ [ClawNext]_clawVars /\ [LoginNext]_loginVars
        /\ [ShellNext]_shellVars /\ [SandboxNext]_sandboxVars
        /\ [ListNext \/ SyncNext]_storeVars
        /\ [RegistryNext]_registryVars /\ [SocketNext]_socketVars
<1>1. CASE FlowFocus
    BY <1>1, FlowActs, Zenon DEF NotFlow, modelSocketVars
<1>2. CASE ClawFocus
    BY <1>2, ClawActs, Zenon DEF NotClaw, modelSocketVars
<1>3. CASE ChatFocus
    BY <1>3, ChatActs, Zenon DEF NotClaw, modelSocketVars
<1>4. CASE LoginFocus
    BY <1>4, LoginActs, Zenon DEF NotLogin, modelSocketVars
<1>5. CASE ShellFocus
    BY <1>5, ShellActs, Zenon DEF NotShell, modelSocketVars
<1>6. CASE SandboxFocus
    BY <1>6, SandboxActs, Zenon DEF NotSandbox, modelSocketVars
<1>7. CASE StoreFocus
    BY <1>7, StoreActs, Zenon DEF NotStore, modelSocketVars
<1>8. CASE RegistryFocus
    BY <1>8, RegistryActs, Zenon DEF NotRegistry
<1>9. CASE SocketFocus
    BY <1>9, SocketActs, Zenon DEF NotSocket
<1> QED
    BY <1>1, <1>2, <1>3, <1>4, <1>5, <1>6, <1>7, <1>8, <1>9 DEF ServicesNext

\* What the runs of this instance explore is, for each service, what its specification
\* allows: the instance restricts which calls overlap, and adds no behaviour.
THEOREM ServicesBehave ==
    ServicesSpec =>
        /\ FlowSpec /\ ClawSpec /\ LoginSpec /\ ShellSpec /\ SandboxSpec
        /\ StoreSpec /\ RegistrySpec /\ SocketSpec
<1>1. [ServicesNext]_vars =>
        /\ [FlowNext]_flowVars /\ [ClawNext]_clawVars /\ [LoginNext]_loginVars
        /\ [ShellNext]_shellVars /\ [SandboxNext]_sandboxVars
        /\ [ListNext \/ SyncNext]_storeVars
        /\ [RegistryNext]_registryVars /\ [SocketNext]_socketVars
    BY EachActs DEF vars
<1>2. ServicesInit =>
        /\ FlowInit /\ ClawInit /\ LoginInit /\ ShellInit /\ SandboxInit /\ StoreInit
        /\ RegistryInit /\ SocketInit
    BY DEF ServicesInit
<1> QED
    BY <1>1, <1>2, PTL DEF ServicesSpec, FlowSpec, ClawSpec, LoginSpec, ShellSpec,
        SandboxSpec, StoreSpec, RegistrySpec, SocketSpec

\* The types of the variables of every service, whichever acts: those of the
\* specifications of the services.
THEOREM ServicesTyped == ServicesSpec => []ServicesTypeOK
<1>1. ServicesInit => focus \in Focus
    BY DEF ServicesInit
<1>2. focus \in Focus /\ [ServicesNext]_vars => (focus \in Focus)'
    BY EachActs DEF vars
<1>3. /\ focus \in Focus
      /\ FlowTypeOK /\ ClawTypeOK /\ LoginTypeOK /\ ShellTypeOK /\ SandboxTypeOK
      /\ StoreTypeOK /\ RegistryTypeOK /\ SocketTypeOK
      => ServicesTypeOK
    BY DEF ServicesTypeOK, Focus
<1>4. ServicesSpec => [](focus \in Focus)
    BY <1>1, <1>2, PTL DEF ServicesSpec
<1> QED
    BY <1>3, <1>4, ServicesBehave, FlowTypes, ClawTypesKept, LoginTypes, ShellsTyped,
        SandboxTypes, StoreTypes, RegistryTypes, SocketTypes, PTL
=============================================================================
