--------------------------- MODULE ClientRegistry ---------------------------
(***************************************************************************)
(* The clients that the OAuth provider remembers across restarts           *)
(* (saveClientsLocked and newOAuthProvider of internal/app/oauth.go), over *)
(* the provider and its gateway.  A registration is written to a temporary *)
(* file that is renamed; the broker may end at any point, and all it had   *)
(* but that file is gone when the next one starts.                         *)
(*                                                                         *)
(* A start that refuses the file (its size, its mode, its contents) is no  *)
(* step: there is no provider until somebody repairs it.  A temporary file *)
(* that a crash leaves behind is read by nobody.                           *)
(***************************************************************************)
EXTENDS HttpGatewayProps

VARIABLES
    file,      \* the clients in oauth-clients.json
    saving,    \* the registration that holds p.mu, or None
    told       \* history: the clients that have been told of their registration

registryVars == <<file, saving, told>>
allVars == <<vars, registryVars>>
-----------------------------------------------------------------------------
Savings == [app : Apps, renamed : BOOLEAN]

ASSUME RegistryAssumption == None \notin Savings

RegistryTypeOK ==
    /\ IsMap(file, Apps, BOOLEAN)
    /\ saving \in Savings \cup {None}
    /\ IsMap(told, Apps, BOOLEAN)

RegistryInit ==
    /\ Init
    /\ file = Empty
    /\ saving = None
    /\ told = Empty

(* register: the client is in the table, and then the table is saved. *)
BeginRegister(a, refreshing) ==
    /\ saving = None
    /\ Register(a, refreshing)
    /\ saving' = [app |-> a, renamed |-> FALSE]
    /\ UNCHANGED <<gatewayVars, file, told>>

Rename ==
    /\ saving # None /\ ~saving.renamed
    /\ file' = apps
    /\ saving' = [saving EXCEPT !.renamed = TRUE]
    /\ UNCHANGED <<vars, told>>

Answer ==
    /\ saving # None /\ saving.renamed
    /\ told' = Put(told, saving.app, apps[saving.app])
    /\ saving' = None
    /\ UNCHANGED <<vars, file>>

(* Faulty: the client stays in the table. *)
BadSaveFails ==
    /\ saving # None /\ ~saving.renamed
    /\ saving' = None
    /\ UNCHANGED <<vars, file, told>>

(* Any call but the rename fails, or the rename does. *)
SaveFails ==
    /\ saving # None /\ ~saving.renamed
    /\ apps' = Restrict(apps, DOMAIN apps \ {saving.app})
    /\ saving' = None
    /\ UNCHANGED <<pending, codes, tokens, refresh, revoker, worldVars, gatewayVars, file, told>>

(* newOAuthProvider and newHTTPGateway after the end of a broker: codes    *)
(* and tokens that clients hold, and the values drawn, are what they were. *)
Restart ==
    /\ apps' = file
    /\ pending' = Empty
    /\ codes' = Empty
    /\ tokens' = Empty
    /\ refresh' = Empty
    /\ revoker' = [v \in Revokers |-> None]
    /\ peers' = Empty
    /\ owner' = [i \in PeerIds |-> None]
    /\ watcher' = [i \in PeerIds |-> "none"]
    /\ cancelled' = {}
    /\ activated' = {}
    /\ session' = [i \in PeerIds |-> "none"]
    /\ recipients' = {}
    /\ post' = [p \in Posts |-> Idle]
    /\ saving' = None
    /\ UNCHANGED <<worldVars, file, told>>

(* What else the provider does needs p.mu. *)
Otherwise ==
    /\ Next
    /\ apps' = apps
    /\ saving # None => UNCHANGED <<tableVars, revoker>>
    /\ UNCHANGED registryVars

RegistryNext ==
    \/ \E a \in Apps, refreshing \in BOOLEAN : BeginRegister(a, refreshing)
    \/ Rename
    \/ Answer
    \/ SaveFails
    \/ Restart
    \/ Otherwise

RegistrySpec == RegistryInit /\ [][RegistryNext]_allVars
-----------------------------------------------------------------------------
(* A client that was told of its registration is registered, as it was     *)
(* told, and after a restart too; and what is served is what a restart     *)
(* would serve, whichever write failed and wherever the broker ended.      *)
(* (AUTH.md: a restart "retains client registration".)                     *)
RegistrationsSurvive ==
    /\ \A a \in DOMAIN told : a \in DOMAIN apps /\ apps[a] = told[a]
    /\ saving = None => apps = file
=============================================================================
