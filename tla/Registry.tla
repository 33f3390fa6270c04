------------------------------ MODULE Registry ------------------------------
(***************************************************************************)
(* The dispatcher's governance registry: the one Registry account and one  *)
(* AdapterEntry account per whitelisted adapter program                    *)
(* (programs/dispatcher/src/state.rs and the instructions                  *)
(* initialize_registry, whitelist_adapter and pause_adapter).              *)
(*                                                                         *)
(* A Solana instruction is one atomic step: the runtime locks the accounts *)
(* it writes and rolls every write back when it fails.  An action below is *)
(* therefore a whole instruction that succeeds, its guard the conjunction  *)
(* of the Anchor account constraints and the handler's require!s.  A PDA   *)
(* is a point of a function; the function's domain is the set of accounts  *)
(* that exist, so `init` is "outside the domain before, inside it after".  *)
(***************************************************************************)
EXTENDS Integers, FiniteSets

CONSTANTS
  Keys,          \* wallets that can sign a transaction
  NoKey,         \* the admin before the registry account exists
  Programs,      \* program ids that may be proposed as adapters
  Executable,    \* those that are deployed, executable programs
  MAX_ADAPTERS,  \* constants.rs: 256
  MAX_NAME_LEN,  \* constants.rs: 32
  NameLens,      \* lengths of the names an admin may submit
  MaxVersion     \* bound on the interface versions ever deployed (a u8)

ASSUME RegistryAssumption ==
  /\ NoKey \notin Keys
  /\ Executable \subseteq Programs
  /\ MAX_ADAPTERS \in Nat
  /\ MAX_NAME_LEN \in Nat
  /\ NameLens \subseteq Nat
  /\ MaxVersion \in Nat \ {0}

VARIABLES
  admin,             \* Registry.admin; NoKey while the account does not exist
  adapter_count,     \* Registry.adapter_count
  adapter_entry,     \* program id -> AdapterEntry, for the entries created
  interface_version  \* ADAPTER_INTERFACE_VERSION of the deployed dispatcher

registryVars == <<admin, adapter_count, adapter_entry, interface_version>>

AdapterEntry == [interface_version : 1..MaxVersion, is_active : BOOLEAN]

\* No account of a kind exists yet.
NoAccounts == [x \in {} |-> x]

\* Anchor's `init`: the account at k comes into existence with content v.
Create(f, k, v) == [x \in DOMAIN f \cup {k} |-> IF x = k THEN v ELSE f[x]]

-----------------------------------------------------------------------------
RegistryInit ==
  /\ admin = NoKey
  /\ adapter_count = 0
  /\ adapter_entry = NoAccounts
  /\ interface_version = 1

\* The first caller of initialize_registry becomes the admin, once.
InitializeRegistry(signer) ==
  /\ admin = NoKey
  /\ admin' = signer
  /\ adapter_count' = 0
  /\ UNCHANGED <<adapter_entry, interface_version>>

\* Mutant: whitelist_adapter as it would be with `init_if_needed` on the entry.
WhitelistAgain(signer, program, name_len, version) ==
  /\ signer = admin
  /\ program \in Executable
  /\ name_len <= MAX_NAME_LEN
  /\ version = interface_version
  /\ adapter_count < MAX_ADAPTERS
  /\ adapter_entry' = Create(adapter_entry, program,
                        [interface_version |-> version, is_active |-> TRUE])
  /\ adapter_count' = adapter_count + 1
  /\ UNCHANGED <<admin, interface_version>>

WhitelistAdapter(signer, program, name_len, version) ==
  /\ signer = admin
  /\ program \notin DOMAIN adapter_entry
  /\ program \in Executable
  /\ name_len <= MAX_NAME_LEN
  /\ version = interface_version
  /\ adapter_count < MAX_ADAPTERS
  /\ adapter_entry' = Create(adapter_entry, program,
                        [interface_version |-> version, is_active |-> TRUE])
  /\ adapter_count' = adapter_count + 1
  /\ UNCHANGED <<admin, interface_version>>

\* Mutant: pause_adapter as it would be if it refreshed the version it finds.
PauseAndRestamp(signer, program, paused) ==
  /\ signer = admin
  /\ program \in DOMAIN adapter_entry
  /\ adapter_entry' = [adapter_entry EXCEPT ![program] =
        [interface_version |-> interface_version, is_active |-> ~paused]]
  /\ UNCHANGED <<admin, adapter_count, interface_version>>

PauseAdapter(signer, program, paused) ==
  /\ signer = admin
  /\ program \in DOMAIN adapter_entry
  /\ adapter_entry' = [adapter_entry EXCEPT ![program].is_active = ~paused]
  /\ UNCHANGED <<admin, adapter_count, interface_version>>

\* A dispatcher built with a bumped ADAPTER_INTERFACE_VERSION is deployed; the
\* accounts written by the old build stay as they are.
UpgradeDispatcher ==
  /\ interface_version < MaxVersion
  /\ interface_version' = interface_version + 1
  /\ UNCHANGED <<admin, adapter_count, adapter_entry>>

RegistryNext ==
  \/ \E signer \in Keys : InitializeRegistry(signer)
  \/ \E signer \in Keys, program \in Programs, name_len \in NameLens,
        version \in 1..MaxVersion :
        WhitelistAdapter(signer, program, name_len, version)
  \/ \E signer \in Keys, program \in Programs, paused \in BOOLEAN :
        PauseAdapter(signer, program, paused)
  \/ UpgradeDispatcher

RegistrySpec == RegistryInit /\ [][RegistryNext]_registryVars

-----------------------------------------------------------------------------
\* The condition every routed instruction (open_position, deposit, withdraw,
\* current_value) puts on the adapter it is asked to call.
Routable(program) ==
  /\ program \in DOMAIN adapter_entry
  /\ adapter_entry[program].is_active
  /\ program \in Executable
  /\ adapter_entry[program].interface_version = interface_version

\* Type invariant of the registry accounts.
RegistryTypeOK ==
  /\ admin \in Keys \cup {NoKey}
  /\ adapter_count \in 0..MAX_ADAPTERS
  /\ DOMAIN adapter_entry \subseteq Programs
  /\ adapter_entry \in [DOMAIN adapter_entry -> AdapterEntry]
  /\ interface_version \in 1..MaxVersion

\* adapter_count is exactly the number of AdapterEntry accounts, so the
\* RegistryFull check of whitelist_adapter bounds the entries that exist and
\* neither refuses early nor lets one more in; no entry exists before the
\* registry does, and every entry is of an executable program.
CountIsExact ==
  /\ IsFiniteSet(DOMAIN adapter_entry)
  /\ adapter_count = Cardinality(DOMAIN adapter_entry)
  /\ adapter_count <= MAX_ADAPTERS
  /\ admin = NoKey => DOMAIN adapter_entry = {}
  /\ DOMAIN adapter_entry \subseteq Executable

\* What pause_adapter.rs promises ("The entry is never removed, so
\* `adapter_count` stays monotonic and history is preserved"), with what the
\* absence of an update instruction adds: the admin is never replaced, entries
\* survive every step, and the version an entry was approved for is never
\* rewritten, so an entry the deployed dispatcher has outgrown stays unroutable.
HistoryStep ==
  /\ admin # NoKey => admin' = admin
  /\ adapter_count' >= adapter_count
  /\ interface_version' >= interface_version
  /\ \A p \in DOMAIN adapter_entry :
        /\ p \in DOMAIN adapter_entry'
        /\ adapter_entry'[p].interface_version = adapter_entry[p].interface_version
        /\ adapter_entry[p].interface_version < interface_version
              => ~Routable(p)'

HistoryPreserved == [][HistoryStep]_registryVars
=============================================================================
