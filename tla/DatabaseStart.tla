----------------------------- MODULE DatabaseStart -----------------------------
(***************************************************************************)
(* db.Init (internal/db/db.go): what the main goroutine does to the         *)
(* database before any service runs - create what is missing, add the       *)
(* columns an older version did not have, move its data to where this       *)
(* version looks for it, seed the defaults - when the process may die       *)
(* between any two statements and run all of it again.                      *)
(*                                                                          *)
(* The pool has one connection (SetMaxOpenConns(1)): a statement waits while *)
(* the rows of a query are open. A statement that fails ends the process,   *)
(* which Crash covers, except the clean-up of the old keys, which logs.     *)
(***************************************************************************)
EXTENDS Integers, FiniteSets

CONSTANTS
    TableCount,     \* CREATE statements
    Columns,        \* columns ensureColumn adds
    BondColumns,    \* TRUE: the database is so old that host_info has bond0_ip
    ConfigKeys,     \* keys of sys_config that have a default
    LegacyKeys,     \* keys of the one subnet an older version had
    MaxId           \* highest id of a subnet (a bound)

ASSUME TableAssumption == TableCount \in Nat \ {0}
ASSUME BondAssumption == BondColumns \in BOOLEAN
ASSUME LegacyAssumption == LegacyKeys # {}
ASSUME MaxIdAssumption == MaxId \in Nat \ {0}

VARIABLES
    tables,     \* how many CREATE statements have taken effect
    missing,    \* columns the tables lack
    resources,  \* host_resource has rows
    config,     \* sys_config: nothing, the default or what a user saved
    legacy,     \* keys of the older version that are still in sys_config
    subnets,    \* dhcp_subnet: id -> row
    nextId,     \* AUTOINCREMENT of dhcp_subnet
    pc,         \* where db.Init is; "down" without a process, "up" after it
    todo,       \* what is left of the loop it is in
    values,     \* old keys whose values migrateDHCPSubnet has read
    open,       \* the rows of a query are open
    upgrade,    \* the database had an older version's keys at first
    edited      \* a user has changed dhcp_subnet

stored == <<tables, missing, resources, config, legacy, subnets, nextId>>
memory == <<pc, todo, values, open>>
history == <<upgrade, edited>>
vars == <<stored, memory, history>>

\* A migrated row has the values of some old keys and defaults for the others.
Row == [old : SUBSET LegacyKeys, user : BOOLEAN]
Starting == pc \notin {"down", "up"}

TypeOK ==
    /\ tables \in 0..TableCount
    /\ missing \subseteq Columns
    /\ resources \in BOOLEAN
    /\ config \in [ConfigKeys -> {"absent", "default", "user"}]
    /\ legacy \subseteq LegacyKeys
    /\ nextId \in Nat \ {0}
    /\ DOMAIN subnets \subseteq 1..nextId - 1
    /\ \A i \in DOMAIN subnets : subnets[i] \in Row
    /\ pc \in {"down", "create", "columns", "alter", "bonds", "copy", "seed",
               "subnets", "insert", "clean", "up"}
    /\ todo \subseteq Columns \cup ConfigKeys \cup LegacyKeys
    /\ values \subseteq LegacyKeys
    /\ open \in BOOLEAN
    /\ upgrade \in BOOLEAN /\ edited \in BOOLEAN

GoTo(label, left) == pc' = label /\ todo' = left

(***************************************************************************)
(* createTables.                                                            *)
(***************************************************************************)
StartProcess ==
    /\ pc = "down"
    /\ GoTo("create", {})
    /\ UNCHANGED <<stored, values, open, history>>

\* Mutant: a database that has a table has them all.
CreateTablesOnce ==
    /\ pc = "create"
    /\ IF tables = 0
       THEN tables' = tables + 1 /\ UNCHANGED <<pc, todo>>
       ELSE GoTo("columns", Columns) /\ UNCHANGED tables
    /\ UNCHANGED <<missing, resources, config, legacy, subnets, nextId, values, open, history>>

\* CREATE ... IF NOT EXISTS: the ones that exist have no effect.
CreateTables ==
    /\ pc = "create"
    /\ IF tables < TableCount
       THEN tables' = tables + 1 /\ UNCHANGED <<pc, todo>>
       ELSE GoTo("columns", Columns) /\ UNCHANGED tables
    /\ UNCHANGED <<missing, resources, config, legacy, subnets, nextId, values, open, history>>

\* Mutant: only the return closes the rows of a query.
OpenUntilReturn(found, returns) == ~returns

\* Rows are closed by Next when it finds none and by the function's return.
StillOpen(found, returns) == found /\ ~returns

\* ensureColumn looks for the column and returns if it is there.
ensureColumn ==
    /\ pc = "columns"
    /\ ~open
    /\ IF todo = {}
       THEN GoTo("bonds", {}) /\ UNCHANGED open
       ELSE \E c \in todo :
               /\ open' = StillOpen(c \notin missing, c \notin missing)
               /\ IF c \in missing
                  THEN GoTo("alter", todo)
                  ELSE GoTo("columns", todo \ {c})
    /\ UNCHANGED <<stored, values, history>>

\* migrateHostResource looks for the old column when host_resource is empty, and
\* copies while the rows of that query are open.
migrateHostResource ==
    /\ pc = "bonds"
    /\ ~open
    /\ IF ~resources /\ BondColumns
       THEN GoTo("copy", {}) /\ open' = StillOpen(TRUE, FALSE)
       ELSE GoTo("seed", ConfigKeys) /\ UNCHANGED open
    /\ UNCHANGED <<stored, values, history>>

\* The ALTER TABLE of ensureColumn and the INSERT of migrateHostResource, which
\* wait for the connection.
Exec ==
    /\ pc \in {"alter", "copy"}
    /\ ~open
    /\ IF pc = "alter"
       THEN \E c \in todo \cap missing :
               /\ missing' = missing \ {c}
               /\ GoTo("columns", todo \ {c})
               /\ UNCHANGED resources
       ELSE /\ resources' = TRUE
            /\ GoTo("seed", ConfigKeys)
            /\ UNCHANGED missing
    /\ UNCHANGED <<tables, config, legacy, subnets, nextId, values, open, history>>

(***************************************************************************)
(* seedDefaultConfig.                                                       *)
(***************************************************************************)
\* Mutant: the default is written over what is there.
insertDefaultAlways(k) == config' = [config EXCEPT ![k] = "default"]

insertDefaultConfig(k) ==
    config' = IF config[k] = "absent" THEN [config EXCEPT ![k] = "default"] ELSE config

\* The keys come in any order (a Go map).
seedDefaultConfig ==
    /\ pc = "seed"
    /\ ~open
    /\ IF todo = {}
       THEN GoTo("subnets", {}) /\ UNCHANGED config
       ELSE \E k \in todo : insertDefaultConfig(k) /\ GoTo("seed", todo \ {k})
    /\ UNCHANGED <<tables, missing, resources, legacy, subnets, nextId, values, open, history>>

(***************************************************************************)
(* migrateDHCPSubnet.                                                       *)
(***************************************************************************)
\* Mutant: the old keys go first.
migrateDHCPSubnetLate ==
    /\ pc = "subnets"
    /\ ~open
    /\ IF DOMAIN subnets # {}
       THEN GoTo("clean", LegacyKeys) /\ UNCHANGED <<values, legacy>>
       ELSE GoTo("insert", {}) /\ values' = legacy /\ legacy' = {}
    /\ UNCHANGED <<tables, missing, resources, config, subnets, nextId, open, history>>

\* configValueOr reads what there is of the old keys when there is no subnet.
migrateDHCPSubnet ==
    /\ pc = "subnets"
    /\ ~open
    /\ IF DOMAIN subnets # {}
       THEN GoTo("clean", LegacyKeys) /\ UNCHANGED values
       ELSE GoTo("insert", {}) /\ values' = legacy
    /\ UNCHANGED <<stored, open, history>>

WithSubnet(row) == [i \in DOMAIN subnets \cup {nextId} |-> IF i = nextId THEN row ELSE subnets[i]]

\* Mutant: the row's id may be given again.
InsertSameSubnet ==
    /\ pc = "insert"
    /\ ~open
    /\ nextId <= MaxId
    /\ subnets' = WithSubnet([old |-> values, user |-> FALSE])
    /\ values' = {}
    /\ GoTo("clean", LegacyKeys)
    /\ UNCHANGED <<tables, missing, resources, config, legacy, nextId, open, history>>

InsertSubnet ==
    /\ pc = "insert"
    /\ ~open
    /\ nextId <= MaxId
    /\ subnets' = WithSubnet([old |-> values, user |-> FALSE])
    /\ nextId' = nextId + 1
    /\ values' = {}
    /\ GoTo("clean", LegacyKeys)
    /\ UNCHANGED <<tables, missing, resources, config, legacy, open, history>>

\* A key that cannot be deleted is logged and left.
cleanOldDHCPKeys ==
    /\ pc = "clean"
    /\ ~open
    /\ IF todo = {}
       THEN GoTo("up", {}) /\ UNCHANGED legacy
       ELSE \E k \in todo :
               /\ legacy' \in {legacy \ {k}, legacy}
               /\ GoTo("clean", todo \ {k})
    /\ UNCHANGED <<tables, missing, resources, config, subnets, nextId, values, open, history>>

(***************************************************************************)
(* The running process, as far as db.Init can tell, and its death.          *)
(***************************************************************************)
SetConfig(k) ==
    /\ pc = "up"
    /\ config' = [config EXCEPT ![k] = "user"]
    /\ UNCHANGED <<tables, missing, resources, legacy, subnets, nextId, memory, history>>

\* One id is left for the migration that follows when the table is emptied.
CreateDHCPSubnet ==
    /\ pc = "up"
    /\ nextId < MaxId
    /\ subnets' = WithSubnet([old |-> {}, user |-> TRUE])
    /\ nextId' = nextId + 1
    /\ edited' = TRUE
    /\ UNCHANGED <<tables, missing, resources, config, legacy, memory, upgrade>>

DeleteDHCPSubnet(id) ==
    /\ pc = "up"
    /\ nextId <= MaxId
    /\ subnets' = [i \in DOMAIN subnets \ {id} |-> subnets[i]]
    /\ edited' = TRUE
    /\ UNCHANGED <<tables, missing, resources, config, legacy, nextId, memory, upgrade>>

\* Imports and deletions of host resources.
ChangeResources ==
    /\ pc = "up"
    /\ resources' \in BOOLEAN
    /\ UNCHANGED <<tables, missing, config, legacy, subnets, nextId, memory, history>>

Crash ==
    /\ pc # "down"
    /\ GoTo("down", {})
    /\ values' = {}
    /\ open' = FALSE
    /\ UNCHANGED <<stored, history>>

\* No database yet, or one of an older version.
Init ==
    /\ \/ /\ tables = 0 /\ missing = {} /\ legacy = {}
          /\ config = [k \in ConfigKeys |-> "absent"]
       \/ /\ tables \in 1..TableCount /\ missing \in SUBSET Columns
          /\ legacy = LegacyKeys
          /\ config \in [ConfigKeys -> {"absent", "default", "user"}]
    /\ resources = FALSE
    /\ subnets = [i \in {} |-> 0]
    /\ nextId = 1
    /\ pc = "down"
    /\ todo = {}
    /\ values = {}
    /\ open = FALSE
    /\ upgrade = (legacy # {})
    /\ edited = FALSE

dbInit ==
    \/ CreateTables \/ ensureColumn \/ migrateHostResource \/ Exec
    \/ seedDefaultConfig \/ migrateDHCPSubnet \/ InsertSubnet \/ cleanOldDHCPKeys

Next ==
    \/ StartProcess
    \/ dbInit
    \/ \E k \in ConfigKeys : SetConfig(k)
    \/ CreateDHCPSubnet
    \/ \E id \in DOMAIN subnets : DeleteDHCPSubnet(id)
    \/ ChangeResources
    \/ Crash

\* The main goroutine goes on as long as the process lives.
Spec == Init /\ [][Next]_vars /\ WF_vars(dbInit)

(***************************************************************************)
(* Properties.                                                              *)
(***************************************************************************)
\* Upgrading never loses the subnet of the older version, wherever the process
\* dies: until a user changes the table, the old keys are complete or a row has
\* all their values (migrateDHCPSubnet inserts before it deletes).
OldRangeKept ==
    upgrade /\ ~edited =>
        \/ legacy = LegacyKeys
        \/ \E i \in DOMAIN subnets : subnets[i].old = LegacyKeys

\* However often it was cut short, a start that ends leaves every table, column
\* and default there, and a subnet unless a user has had a hand in it.
ReadyComplete ==
    pc = "up" =>
        /\ tables = TableCount /\ missing = {}
        /\ \A k \in ConfigKeys : config[k] # "absent"
        /\ edited \/ DOMAIN subnets # {}

\* Running the start again never touches what users saved: no value that is set,
\* no row of a table that has one (the checks for absence before each INSERT).
SavedKept ==
    [][Starting =>
          /\ \A k \in ConfigKeys : config[k] # "absent" => config'[k] = config[k]
          /\ DOMAIN subnets # {} => subnets' = subnets
          /\ resources => resources']_vars

\* A start ends: the services run or the process is gone (comment at db.go:254:
\* the data of an old host_info is copied).
StartEnds == Starting ~> ~Starting

================================================================================
