------------------------------ MODULE Accounts ------------------------------
(***************************************************************************)
(* Credentials of an account: the key with which a reader's assistant logs *)
(* in (ui/integration_show.go, storage/api_key.go), and the user names     *)
(* under which the Fever and Google Reader interfaces know a user          *)
(* (ui/integration_update.go, storage/integration.go).  Both are changed   *)
(* by a request that looks first and writes in a later statement.  Keys    *)
(* have a unique description within a user; user names have no such index. *)
(*                                                                         *)
(* The keys are those of one user that have the description "Panfleto      *)
(* MCP"; there is at most one row.  The names are those of one interface.  *)
(***************************************************************************)
EXTENDS Naturals

CONSTANTS Clients, Keys, NoKey, Owners, Names, NoName

ASSUME AccountAssumption == NoKey \notin Keys /\ NoName \notin Names

VARIABLES
    key,      \* the row of api_keys, or NoKey
    minted,   \* keys that were ever created
    step,     \* where a request is
    seen,     \* the key it has read
    before,   \* history: the key there was when the request began
    name,     \* integrations.fever_username, or googlereader_username
    form,     \* the owner and the name a request is about to save
    joint,    \* history: requests whose check and save others came between
    mixed     \* history: owners whose name such a request saved

keyVars == <<key, minted>>
nameVars == <<name, joint, mixed>>
accountVars == <<keyVars, step, seen, before, nameVars, form>>

NoForm == [owner |-> NoName, name |-> NoName]

AccountInit ==
    /\ key = NoKey /\ minted = {}
    /\ step = [c \in Clients |-> "idle"]
    /\ seen = [c \in Clients |-> NoKey] /\ before = [c \in Clients |-> NoKey]
    /\ name = [u \in Owners |-> NoName] /\ joint = {} /\ mixed = {}
    /\ form = [c \in Clients |-> NoForm]

Moves(c, from, to) == step[c] = from /\ step' = [step EXCEPT ![c] = to]

---------------------------------------------------------------------------
(* generateMCPToken and rotateMCPToken. *)

\* mcpAPIKey: the key there is; none also when it cannot be read.
ReadKey(c, from, to) ==
    /\ Moves(c, from, to)
    /\ \E k \in {key, NoKey} : seen' = [seen EXCEPT ![c] = k]
    /\ UNCHANGED <<keyVars, nameVars, form>>

StartGenerate(c) ==
    /\ ReadKey(c, "idle", "generate")
    /\ before' = [before EXCEPT ![c] = key]

StartRotate(c) ==
    /\ ReadKey(c, "idle", "rotate")
    /\ before' = [before EXCEPT ![c] = key]

\* CreateAPIKey: a second key of that description violates the unique index;
\* the statement may also fail for a reason of its own.
CreateKey ==
    /\ key = NoKey
    /\ \E k \in Keys \ minted : key' = k /\ minted' = minted \cup {k}

CreateKeyFails == UNCHANGED keyVars

Inserted(c, from, to, failed) ==
    /\ \/ CreateKey /\ Moves(c, from, to)
       \/ CreateKeyFails /\ Moves(c, from, failed)
    /\ UNCHANGED <<seen, before, nameVars, form>>

GenerateNothing(c) ==
    /\ seen[c] # NoKey /\ Moves(c, "generate", "generated")
    /\ UNCHANGED <<keyVars, seen, before, nameVars, form>>

GenerateInsert(c) == seen[c] = NoKey /\ Inserted(c, "generate", "generated", "lookAgain")

\* The INSERT failed: whoever won the race has made the key.
LookAgain(c) == ReadKey(c, "lookAgain", "judge") /\ UNCHANGED before

Judge(c) ==
    /\ Moves(c, "judge", IF seen[c] = NoKey THEN "failed" ELSE "generated")
    /\ UNCHANGED <<keyVars, seen, before, nameVars, form>>

\* The old key goes before the new one is made.
DeleteOld(c) ==
    /\ seen[c] # NoKey
    /\ IF key = seen[c] THEN Moves(c, "rotate", "replace") /\ key' = NoKey
                        ELSE Moves(c, "rotate", "failed") /\ UNCHANGED key
    /\ UNCHANGED <<minted, seen, before, nameVars, form>>

DeleteOldFails(c) ==
    /\ seen[c] # NoKey /\ Moves(c, "rotate", "failed")
    /\ UNCHANGED <<keyVars, seen, before, nameVars, form>>

NothingToDelete(c) ==
    /\ seen[c] = NoKey /\ Moves(c, "rotate", "replace")
    /\ UNCHANGED <<keyVars, seen, before, nameVars, form>>

\* Wrong: whichever key is there serves as the new one.
RotateRetryOrTake(c) ==
    /\ \/ CreateKey /\ Moves(c, "retry", "rotated")
       \/ CreateKeyFails /\ Moves(c, "retry", IF key = NoKey THEN "failed" ELSE "rotated")
    /\ UNCHANGED <<seen, before, nameVars, form>>

RotateInsert(c) == Inserted(c, "replace", "rotated", "retry")
RotateRetry(c) == Inserted(c, "retry", "rotated", "failed")

\* Removing a key from the list of keys.
DeleteKey ==
    /\ key # NoKey /\ key' = NoKey
    /\ UNCHANGED <<minted, step, seen, before, nameVars, form>>

\* Entering the same description for a key of one's own.
SaveAPIKey ==
    /\ CreateKey
    /\ UNCHANGED <<step, seen, before, nameVars, form>>

---------------------------------------------------------------------------
(* updateIntegration. *)

\* Wrong: only a name that one has already is refused.
CheckNameOwn(c) ==
    /\ Moves(c, "idle", "save")
    /\ \E u \in Owners, n \in Names \cup {NoName} :
          /\ n = NoName \/ name[u] # n
          /\ form' = [form EXCEPT ![c] = [owner |-> u, name |-> n]]
    /\ UNCHANGED <<keyVars, seen, before, name, joint, mixed>>

\* Does another user have the name?
CheckName(c) ==
    /\ Moves(c, "idle", "save")
    /\ \E u \in Owners, n \in Names \cup {NoName} :
          /\ n = NoName \/ \A v \in Owners \ {u} : name[v] # n
          /\ form' = [form EXCEPT ![c] = [owner |-> u, name |-> n]]
    /\ LET others == {d \in Clients \ {c} : step[d] = "save"}
       IN joint' = IF others = {} THEN joint \ {c} ELSE joint \cup others \cup {c}
    /\ UNCHANGED <<keyVars, seen, before, name, mixed>>

UpdateIntegration(c) ==
    LET u == form[c].owner
    IN /\ Moves(c, "save", "saved")
       /\ name' = [name EXCEPT ![u] = form[c].name]
       /\ mixed' = IF c \in joint THEN mixed \cup {u} ELSE mixed \ {u}
       /\ form' = [form EXCEPT ![c] = NoForm]
       /\ UNCHANGED <<keyVars, seen, before, joint>>

---------------------------------------------------------------------------

Done == {"generated", "rotated", "failed", "saved"}

\* The response has been sent.
Answered(c) ==
    /\ step[c] \in Done
    /\ step' = [step EXCEPT ![c] = "idle"]
    /\ seen' = [seen EXCEPT ![c] = NoKey] /\ before' = [before EXCEPT ![c] = NoKey]
    /\ UNCHANGED <<keyVars, nameVars, form>>

GenerateMCPToken(c) ==
    StartGenerate(c) \/ GenerateNothing(c) \/ GenerateInsert(c) \/ LookAgain(c) \/ Judge(c)
RotateMCPToken(c) ==
    \/ StartRotate(c) \/ DeleteOld(c) \/ DeleteOldFails(c) \/ NothingToDelete(c)
    \/ RotateInsert(c) \/ RotateRetry(c)

ChangingKeys ==
    DeleteKey \/ SaveAPIKey \/ \E c \in Clients : GenerateMCPToken(c) \/ RotateMCPToken(c)
ChangingNames == \E c \in Clients : CheckName(c) \/ UpdateIntegration(c)
Answering == \E c \in Clients : Answered(c)

AccountNext == ChangingKeys \/ ChangingNames \/ Answering

AccountSpec == AccountInit /\ [][AccountNext]_accountVars

---------------------------------------------------------------------------
(* Properties. *)

\* "The old token dies immediately": when a rotation says that it is done, the
\* key that was there when it was asked for is no more, whatever other
\* requests, failed reads and retries came between.
RotatedKeysAreDead == \A c \in Clients :
    step[c] = "rotated" /\ before[c] # NoKey => key # before[c]

\* Two users do not share a name, unless their saves overlapped: the check
\* for a duplicate and the UPDATE are two statements, and no index backs them.
QuietNamesAreUnique == \A u, v \in Owners :
    u # v /\ name[u] = name[v] => name[u] = NoName \/ {u, v} \subseteq mixed
=============================================================================
