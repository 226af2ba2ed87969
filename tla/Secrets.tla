-------------------------------- MODULE Secrets --------------------------------
(***************************************************************************)
(* podman's secrets (crates/core/src/secrets/mod.rs): `kuadrat secret set` *)
(* is two commands, rm and create, because create refuses a name that      *)
(* exists; and a deploy's Secrets stage looks, once, whether every name of *)
(* its spec is there.  Any number of these run at once, with no lock.      *)
(***************************************************************************)
EXTENDS Naturals

CONSTANTS
    SecretNames,
    Commands,     \* processes: `secret set`, `secret rm`, deploys
    MaxUses,      \* bound: commands run
    MaxBreaks     \* bound: podman commands that fail, processes that die

ASSUME SecretsAssumption ==
    /\ SecretNames # {}
    /\ MaxUses \in Nat /\ MaxBreaks \in Nat

VARIABLES
    vault,        \* the names podman has
    cmd,          \* the commands' locals
    lost,         \* names never set, removed, or lost with a set that broke
    falsely,      \* pre-flights that missed a name nobody had taken away
    uses, breaks

secretVars == <<vault, cmd, lost, falsely, uses, breaks>>

------------------------------------------------------------------------------
Command == [pc : {"idle", "remove", "create", "rm", "preflight"},
            name : SecretNames]

Nothing == [pc |-> "idle", name |-> CHOOSE n \in SecretNames : TRUE]

SecretsInit ==
    /\ vault = {}
    /\ cmd = [c \in Commands |-> Nothing]
    /\ lost = SecretNames
    /\ falsely = {}
    /\ uses = 0 /\ breaks = 0

In(c, pc) == cmd[c].pc = pc

Leave(c) == cmd' = [cmd EXCEPT ![c] = Nothing]

\* A set of n is between its two commands.
Replacing(n) == \E c \in Commands : In(c, "create") /\ cmd[c].name = n

Use(c, n) ==
    /\ In(c, "idle") /\ uses < MaxUses
    /\ uses' = uses + 1
    /\ \E pc \in {"remove", "rm", "preflight"} :
         cmd' = [cmd EXCEPT ![c] = [pc |-> pc, name |-> n]]
    /\ UNCHANGED <<vault, lost, falsely, breaks>>

\* set, first command: best effort, whatever it says.
SetRemoves(c) ==
    /\ In(c, "remove")
    /\ vault' = vault \ {cmd[c].name}
    /\ cmd' = [cmd EXCEPT ![c].pc = "create"]
    /\ UNCHANGED <<lost, falsely, uses, breaks>>

\* Mutant: the old secret is removed after the new one was created.
CreateThenRemove(c) ==
    /\ In(c, "create")
    /\ vault' = vault \ {cmd[c].name}
    /\ lost' = lost \ {cmd[c].name}
    /\ Leave(c)
    /\ UNCHANGED <<falsely, uses, breaks>>

\* Second: refused if another set has created the name meanwhile.
SetCreates(c) ==
    /\ In(c, "create")
    /\ IF cmd[c].name \in vault THEN UNCHANGED <<vault, lost>>
       ELSE /\ vault' = vault \cup {cmd[c].name}
            /\ lost' = lost \ {cmd[c].name}
    /\ Leave(c)
    /\ UNCHANGED <<falsely, uses, breaks>>

\* remove: an error if there is none.
Removes(c) ==
    /\ In(c, "rm")
    /\ vault' = vault \ {cmd[c].name}
    /\ lost' = lost \cup {cmd[c].name}
    /\ Leave(c)
    /\ UNCHANGED <<falsely, uses, breaks>>

\* list: podman secret ls.
Listed == vault

\* ensure_all: one listing, and the deploy passes its Secrets stage or fails.
EnsureAll(c) ==
    /\ In(c, "preflight")
    /\ LET n == cmd[c].name
       IN falsely' = IF n \notin Listed /\ n \notin lost /\ ~Replacing(n)
                     THEN falsely \cup {n} ELSE falsely
    /\ Leave(c)
    /\ UNCHANGED <<vault, lost, uses, breaks>>

\* podman fails, or the process dies, at whatever it was about to do; a failed
\* rm of a set is passed over.  Between the two commands of a set, the secret
\* is gone with it.
Breaks(c) ==
    /\ ~In(c, "idle")
    /\ breaks < MaxBreaks
    /\ breaks' = breaks + 1
    /\ \/ Leave(c)
       \/ In(c, "remove") /\ cmd' = [cmd EXCEPT ![c].pc = "create"]
    /\ lost' = IF In(c, "create") THEN lost \cup {cmd[c].name} ELSE lost
    /\ UNCHANGED <<vault, falsely, uses>>

SecretsNext ==
    \E c \in Commands :
        \/ \E n \in SecretNames : Use(c, n)
        \/ SetRemoves(c) \/ SetCreates(c) \/ Removes(c) \/ EnsureAll(c) \/ Breaks(c)

SecretsSpec == SecretsInit /\ [][SecretsNext]_secretVars

------------------------------------------------------------------------------
\* Every variable keeps its type.
SecretsTypeOK ==
    /\ cmd \in [Commands -> Command]
    /\ vault \subseteq SecretNames /\ lost \subseteq SecretNames
    /\ falsely \subseteq SecretNames
    /\ uses \in 0..MaxUses /\ breaks \in 0..MaxBreaks

\* However many sets of one name interleave, a secret once set is missing only
\* while one of them is between rm and create, or after one that broke there or
\* a removal; and no deploy is refused for a secret that is missing otherwise
\* (mod.rs:10-44, 84-96).
SecretsKept ==
    /\ \A n \in SecretNames \ vault : n \in lost \/ Replacing(n)
    /\ falsely = {}
================================================================================
