------------------------- MODULE DatabaseStart_proofs -------------------------
(***************************************************************************)
(* Theorems about DatabaseStart, for any number of tables, columns and keys *)
(* and whatever the database lacks.                                         *)
(***************************************************************************)
EXTENDS DatabaseStart, TLAPS

\* What db.Init has done by the time it gets to each place.
Created == pc \notin {"down", "create"} => tables = TableCount
Altered ==
    /\ pc \in {"columns", "alter"} => missing \subseteq todo
    /\ pc \notin {"down", "create", "columns", "alter"} => missing = {}
Seeded ==
    /\ pc = "seed" => \A k \in ConfigKeys \ todo : config[k] # "absent"
    /\ pc \in {"subnets", "insert", "clean", "up"} => \A k \in ConfigKeys : config[k] # "absent"

\* It reads the old keys only when there is no subnet, and deletes them only when
\* there is one.
Migrated ==
    /\ pc = "insert" => DOMAIN subnets = {} /\ values = legacy
    /\ pc = "clean" => DOMAIN subnets # {}
    /\ pc = "up" => edited \/ DOMAIN subnets # {}

\* The old values are in exactly one of two places.
Moved ==
    upgrade /\ ~edited =>
        IF DOMAIN subnets = {} THEN legacy = LegacyKeys
        ELSE \E i \in DOMAIN subnets : subnets[i].old = LegacyKeys

Inv == TypeOK /\ Created /\ Altered /\ Seeded /\ Migrated /\ Moved

LEMMA InvImplies == Inv => OldRangeKept /\ ReadyComplete
BY DEF Inv, Moved, OldRangeKept, Created, Altered, Seeded, Migrated, ReadyComplete

\* TypeOK in its parts.
SchemaType == tables \in 0..TableCount /\ missing \subseteq Columns /\ resources \in BOOLEAN
ConfigType ==
    config \in [ConfigKeys -> {"absent", "default", "user"}] /\ legacy \subseteq LegacyKeys
SubnetType ==
    /\ nextId \in Nat \ {0}
    /\ DOMAIN subnets \subseteq 1..nextId - 1
    /\ \A i \in DOMAIN subnets : subnets[i] \in Row
PlaceType ==
    /\ pc \in {"down", "create", "columns", "alter", "bonds", "copy", "seed",
               "subnets", "insert", "clean", "up"}
    /\ todo \subseteq Columns \cup ConfigKeys \cup LegacyKeys
    /\ values \subseteq LegacyKeys
    /\ open \in BOOLEAN
HistoryType == upgrade \in BOOLEAN /\ edited \in BOOLEAN

LEMMA Parts == TypeOK <=> SchemaType /\ ConfigType /\ SubnetType /\ PlaceType /\ HistoryType
BY DEF TypeOK, SchemaType, ConfigType, SubnetType, PlaceType, HistoryType

LEMMA PartsNext ==
  TypeOK' <=> SchemaType' /\ ConfigType' /\ SubnetType' /\ PlaceType' /\ HistoryType'
BY DEF TypeOK, SchemaType, ConfigType, SubnetType, PlaceType, HistoryType

LEMMA InitInv == Init => Inv
<1> SUFFICES ASSUME Init PROVE Inv
  OBVIOUS
<1>1. DOMAIN subnets = {}
  BY DEF Init
<1>2. SchemaType /\ ConfigType
  <2>1. tables \in 0..TableCount /\ missing \subseteq Columns /\ legacy \subseteq LegacyKeys
    BY TableAssumption DEF Init
  <2>2. config \in [ConfigKeys -> {"absent", "default", "user"}]
    BY DEF Init
  <2> QED
    BY <2>1, <2>2 DEF Init, SchemaType, ConfigType
<1>3. SubnetType /\ PlaceType /\ HistoryType
  <2>1. SubnetType
    <3>1. nextId = 1
      BY DEF Init
    <3> QED
      BY <1>1, <3>1 DEF SubnetType
  <2>2. PlaceType
    <3>1. pc = "down" /\ todo = {} /\ values = {} /\ open = FALSE
      BY DEF Init
    <3> QED
      BY <3>1 DEF PlaceType
  <2>3. HistoryType
    <3>1. upgrade = (legacy # {}) /\ edited = FALSE
      BY DEF Init
    <3> QED
      BY <3>1, Zenon DEF HistoryType
  <2> QED
    BY <2>1, <2>2, <2>3
<1>4. Created /\ Altered /\ Seeded /\ Migrated
  BY DEF Init, Created, Altered, Seeded, Migrated
<1>5. Moved
  BY <1>1 DEF Init, Moved
<1> QED
  BY <1>2, <1>3, <1>4, <1>5, Parts DEF Inv

(***************************************************************************)
(* Steps that leave dhcp_subnet and the old keys alone.                     *)
(***************************************************************************)
LEMMA SchemaSteps ==
  ASSUME Inv, CreateTables \/ ensureColumn \/ migrateHostResource \/ Exec
  PROVE  Inv'
<1>1. SchemaType /\ ConfigType /\ SubnetType /\ PlaceType /\ HistoryType
  BY Parts DEF Inv
<1>2. UNCHANGED <<config, legacy, subnets, nextId, values, history>>
  BY DEF CreateTables, ensureColumn, migrateHostResource, Exec, stored, history
<1>3. ConfigType' /\ SubnetType' /\ HistoryType' /\ Moved'
  BY <1>1, <1>2 DEF Inv, ConfigType, SubnetType, HistoryType, Moved, history
<1>4. CASE CreateTables
  <2>1. SchemaType' /\ PlaceType'
    BY <1>1, <1>4, TableAssumption DEF CreateTables, GoTo, SchemaType, PlaceType
  <2>2. Created' /\ Altered' /\ Seeded' /\ Migrated'
    BY <1>1, <1>4, TableAssumption
    DEF CreateTables, GoTo, Created, Altered, Seeded, Migrated, SchemaType
  <2> QED
    BY <1>3, <2>1, <2>2, PartsNext DEF Inv
<1>5. CASE ensureColumn
  <2>1. /\ UNCHANGED <<tables, missing, resources>> /\ pc = "columns"
        /\ \/ todo = {} /\ GoTo("bonds", {}) /\ UNCHANGED open
           \/ \E c \in todo : /\ open' \in BOOLEAN
                              /\ \/ c \in missing /\ GoTo("alter", todo)
                                 \/ c \notin missing /\ GoTo("columns", todo \ {c})
    BY <1>5 DEF ensureColumn, stored, StillOpen
  <2>2. SchemaType' /\ PlaceType'
    BY <1>1, <1>2, <2>1 DEF GoTo, SchemaType, PlaceType
  <2>3. Created' /\ Altered' /\ Seeded' /\ Migrated'
    BY <2>1 DEF Inv, GoTo, Created, Altered, Seeded, Migrated
  <2> QED
    BY <1>3, <2>2, <2>3, PartsNext DEF Inv
<1>6. CASE migrateHostResource
  <2>1. /\ UNCHANGED <<tables, missing, resources>> /\ pc = "bonds"
        /\ \/ GoTo("copy", {}) /\ open' \in BOOLEAN
           \/ GoTo("seed", ConfigKeys) /\ UNCHANGED open
    BY <1>6 DEF migrateHostResource, stored, StillOpen
  <2>2. SchemaType' /\ PlaceType'
    BY <1>1, <1>2, <2>1 DEF GoTo, SchemaType, PlaceType
  <2>3. Created' /\ Altered' /\ Seeded' /\ Migrated'
    BY <2>1 DEF Inv, GoTo, Created, Altered, Seeded, Migrated
  <2> QED
    BY <1>3, <2>2, <2>3, PartsNext DEF Inv
<1>7. CASE Exec
  <2>1. /\ UNCHANGED <<tables, open>>
        /\ \/ /\ pc = "alter" /\ UNCHANGED resources
              /\ \E c \in todo \cap missing :
                    missing' = missing \ {c} /\ GoTo("columns", todo \ {c})
           \/ /\ pc = "copy" /\ resources' = TRUE /\ GoTo("seed", ConfigKeys)
              /\ UNCHANGED missing
    BY <1>7 DEF Exec
  <2>2. SchemaType' /\ PlaceType'
    BY <1>1, <1>2, <2>1 DEF GoTo, SchemaType, PlaceType
  <2>3. Created' /\ Altered' /\ Seeded' /\ Migrated'
    BY <2>1 DEF Inv, GoTo, Created, Altered, Seeded, Migrated
  <2> QED
    BY <1>3, <2>2, <2>3, PartsNext DEF Inv
<1> QED
  BY <1>4, <1>5, <1>6, <1>7

LEMMA SeedStep ==
  ASSUME Inv, seedDefaultConfig
  PROVE  Inv'
<1>1. SchemaType /\ ConfigType /\ SubnetType /\ PlaceType /\ HistoryType
  BY Parts DEF Inv
<1>2. /\ UNCHANGED <<tables, missing, resources, legacy, subnets, nextId, values, open, history>>
      /\ pc = "seed"
      /\ \/ todo = {} /\ GoTo("subnets", {}) /\ UNCHANGED config
         \/ \E k \in todo : insertDefaultConfig(k) /\ GoTo("seed", todo \ {k})
  BY DEF seedDefaultConfig
<1>3. /\ ConfigType'
      /\ \A k \in ConfigKeys : config[k] # "absent" => config'[k] = config[k]
      /\ \A k \in ConfigKeys : insertDefaultConfig(k) => config'[k] # "absent"
  BY <1>1, <1>2 DEF ConfigType, insertDefaultConfig
<1>4. SchemaType' /\ SubnetType' /\ PlaceType' /\ HistoryType'
  BY <1>1, <1>2 DEF SchemaType, SubnetType, PlaceType, HistoryType, GoTo, history
<1>5. Created' /\ Altered' /\ Migrated' /\ Moved'
  BY <1>2 DEF Inv, Created, Altered, Migrated, Moved, GoTo, history
<1>6. Seeded'
  <2>1. CASE todo = {} /\ GoTo("subnets", {}) /\ UNCHANGED config
    BY <1>2, <2>1 DEF Inv, Seeded, GoTo
  <2>2. ASSUME NEW k \in todo, insertDefaultConfig(k), GoTo("seed", todo \ {k})
        PROVE  Seeded'
    <3>1. pc' = "seed" /\ todo' = todo \ {k}
      BY <2>2 DEF GoTo
    <3>2. ASSUME NEW x \in ConfigKeys \ todo' PROVE config'[x] # "absent"
      <4>1. CASE x = k
        BY <1>3, <2>2, <4>1
      <4>2. CASE x # k
        BY <1>2, <1>3, <3>1, <4>2 DEF Inv, Seeded
      <4> QED
        BY <4>1, <4>2
    <3> QED
      BY <3>1, <3>2 DEF Seeded
  <2> QED
    BY <1>2, <2>1, <2>2
<1> QED
  BY <1>3, <1>4, <1>5, <1>6, PartsNext DEF Inv

(***************************************************************************)
(* Steps that move the old subnet.                                          *)
(***************************************************************************)
LEMMA ReadStep ==
  ASSUME Inv, migrateDHCPSubnet
  PROVE  Inv'
<1>1. SchemaType /\ ConfigType /\ SubnetType /\ PlaceType /\ HistoryType
  BY Parts DEF Inv
<1>2. /\ UNCHANGED <<stored, open, history>> /\ pc = "subnets"
      /\ \/ DOMAIN subnets # {} /\ GoTo("clean", LegacyKeys) /\ UNCHANGED values
         \/ DOMAIN subnets = {} /\ GoTo("insert", {}) /\ values' = legacy
  BY DEF migrateDHCPSubnet
<1>3. SchemaType' /\ ConfigType' /\ SubnetType' /\ PlaceType' /\ HistoryType'
  BY <1>1, <1>2
  DEF stored, history, GoTo, SchemaType, ConfigType, SubnetType, PlaceType, HistoryType
<1>4. Created' /\ Altered' /\ Seeded' /\ Migrated' /\ Moved'
  BY <1>2 DEF Inv, Created, Altered, Seeded, Migrated, Moved, stored, history, GoTo
<1> QED
  BY <1>3, <1>4, PartsNext DEF Inv

\* A row is added under an id no row has.
LEMMA AddedValues ==
  ASSUME SubnetType, NEW row \in Row, subnets' = WithSubnet(row), nextId' = nextId + 1
  PROVE  /\ SubnetType'
         /\ nextId \in DOMAIN subnets' /\ subnets'[nextId] = row
<1>1. /\ nextId \in Nat \ {0} /\ nextId \notin DOMAIN subnets
      /\ DOMAIN subnets \subseteq 1..nextId' - 1 /\ nextId \in 1..nextId' - 1
      /\ nextId' \in Nat \ {0}
  BY DEF SubnetType
<1>2. /\ DOMAIN subnets' = DOMAIN subnets \cup {nextId}
      /\ subnets'[nextId] = row
      /\ \A i \in DOMAIN subnets : subnets'[i] = subnets[i]
  BY <1>1 DEF WithSubnet
<1>3. \A i \in DOMAIN subnets' : subnets'[i] \in Row
  BY <1>2 DEF SubnetType
<1> QED
  BY <1>1, <1>2, <1>3 DEF SubnetType

LEMMA InsertStep ==
  ASSUME Inv, InsertSubnet
  PROVE  Inv'
<1>1. SchemaType /\ ConfigType /\ SubnetType /\ PlaceType /\ HistoryType
  BY Parts DEF Inv
<1> DEFINE row == [old |-> values, user |-> FALSE]
<1>2. /\ UNCHANGED <<tables, missing, resources, config, legacy, open, history>>
      /\ pc = "insert" /\ values' = {} /\ GoTo("clean", LegacyKeys)
      /\ subnets' = WithSubnet(row) /\ nextId' = nextId + 1
  BY DEF InsertSubnet
<1>3. row \in Row /\ row.old = values
  BY <1>1 DEF Row, PlaceType
<1> HIDE DEF row
<1>4. SubnetType' /\ nextId \in DOMAIN subnets' /\ subnets'[nextId] = row
  BY <1>1, <1>2, <1>3, AddedValues
<1>5. SchemaType' /\ ConfigType' /\ PlaceType' /\ HistoryType'
  BY <1>1, <1>2 DEF history, GoTo, SchemaType, ConfigType, PlaceType, HistoryType
<1>6. Created' /\ Altered' /\ Seeded' /\ Migrated'
  BY <1>2, <1>4 DEF Inv, Created, Altered, Seeded, Migrated, GoTo
<1>7. Moved'
  <2> SUFFICES ASSUME upgrade, ~edited PROVE subnets'[nextId].old = LegacyKeys
    BY <1>2, <1>4 DEF Moved, history
  <2>1. values = legacy /\ legacy = LegacyKeys
    BY <1>2 DEF Inv, Migrated, Moved
  <2> QED
    BY <1>3, <1>4, <2>1
<1> QED
  BY <1>4, <1>5, <1>6, <1>7, PartsNext DEF Inv

LEMMA CleanStep ==
  ASSUME Inv, cleanOldDHCPKeys
  PROVE  Inv'
<1>1. SchemaType /\ ConfigType /\ SubnetType /\ PlaceType /\ HistoryType
  BY Parts DEF Inv
<1>2. /\ UNCHANGED <<tables, missing, resources, config, subnets, nextId, values, open, history>>
      /\ pc = "clean" /\ legacy' \subseteq legacy
      /\ \/ GoTo("up", {})
         \/ \E k \in todo : GoTo("clean", todo \ {k})
  BY DEF cleanOldDHCPKeys
<1>3. SchemaType' /\ ConfigType' /\ SubnetType' /\ PlaceType' /\ HistoryType'
  BY <1>1, <1>2 DEF history, GoTo, SchemaType, ConfigType, SubnetType, PlaceType, HistoryType
<1>4. Created' /\ Altered' /\ Seeded' /\ Migrated' /\ Moved'
  BY <1>2 DEF Inv, Created, Altered, Seeded, Migrated, Moved, history, GoTo
<1> QED
  BY <1>3, <1>4, PartsNext DEF Inv

(***************************************************************************)
(* The running process and its death.                                       *)
(***************************************************************************)
LEMMA RunningSteps ==
  ASSUME Inv, \/ \E k \in ConfigKeys : SetConfig(k)
              \/ CreateDHCPSubnet
              \/ \E id \in DOMAIN subnets : DeleteDHCPSubnet(id)
              \/ ChangeResources
  PROVE  Inv'
<1>1. SchemaType /\ ConfigType /\ SubnetType /\ PlaceType /\ HistoryType
  BY Parts DEF Inv
<1>2. pc = "up" /\ UNCHANGED <<tables, missing, legacy, memory, upgrade>>
  BY DEF SetConfig, CreateDHCPSubnet, DeleteDHCPSubnet, ChangeResources, history
<1>3. PlaceType' /\ Created' /\ Altered'
  BY <1>1, <1>2 DEF Inv, PlaceType, memory, Created, Altered
<1>4. ASSUME NEW k \in ConfigKeys, SetConfig(k)
      PROVE  Inv'
  <2>1. config' = [config EXCEPT ![k] = "user"] /\ UNCHANGED <<resources, subnets, nextId, history>>
    BY <1>4 DEF SetConfig
  <2>2. ConfigType' /\ \A x \in ConfigKeys : config[x] # "absent" => config'[x] # "absent"
    BY <1>1, <1>2, <2>1 DEF ConfigType
  <2>3. SchemaType' /\ SubnetType' /\ HistoryType'
    BY <1>1, <1>2, <2>1 DEF SchemaType, SubnetType, HistoryType, history
  <2>4. Seeded' /\ Migrated' /\ Moved'
    BY <1>2, <2>1, <2>2 DEF Inv, Seeded, Migrated, Moved, memory, history
  <2> QED
    BY <1>3, <2>2, <2>3, <2>4, PartsNext DEF Inv
<1>5. CASE CreateDHCPSubnet
  <2> DEFINE row == [old |-> {}, user |-> TRUE]
  <2>1. /\ subnets' = WithSubnet(row) /\ nextId' = nextId + 1 /\ edited' = TRUE
        /\ UNCHANGED <<config, resources>>
    BY <1>5 DEF CreateDHCPSubnet
  <2>2. row \in Row
    BY DEF Row
  <2> HIDE DEF row
  <2>3. SubnetType'
    BY <1>1, <2>1, <2>2, AddedValues
  <2>4. SchemaType' /\ ConfigType' /\ HistoryType'
    BY <1>1, <1>2, <2>1 DEF SchemaType, ConfigType, HistoryType
  <2>5. Seeded' /\ Migrated' /\ Moved'
    BY <1>2, <2>1 DEF Inv, Seeded, Migrated, Moved, memory
  <2> QED
    BY <1>3, <2>3, <2>4, <2>5, PartsNext DEF Inv
<1>6. ASSUME NEW id \in DOMAIN subnets, DeleteDHCPSubnet(id)
      PROVE  Inv'
  <2>1. /\ subnets' = [i \in DOMAIN subnets \ {id} |-> subnets[i]] /\ edited' = TRUE
        /\ UNCHANGED <<config, resources, nextId>>
    BY <1>6 DEF DeleteDHCPSubnet
  <2>2. SubnetType'
    BY <1>1, <2>1 DEF SubnetType
  <2>3. SchemaType' /\ ConfigType' /\ HistoryType'
    BY <1>1, <1>2, <2>1 DEF SchemaType, ConfigType, HistoryType
  <2>4. Seeded' /\ Migrated' /\ Moved'
    BY <1>2, <2>1 DEF Inv, Seeded, Migrated, Moved, memory
  <2> QED
    BY <1>3, <2>2, <2>3, <2>4, PartsNext DEF Inv
<1>7. CASE ChangeResources
  <2>1. resources' \in BOOLEAN /\ UNCHANGED <<config, subnets, nextId, history>>
    BY <1>7 DEF ChangeResources
  <2>2. SchemaType' /\ ConfigType' /\ SubnetType' /\ HistoryType'
    BY <1>1, <1>2, <2>1 DEF SchemaType, ConfigType, SubnetType, HistoryType, history
  <2>3. Seeded' /\ Migrated' /\ Moved'
    BY <1>2, <2>1 DEF Inv, Seeded, Migrated, Moved, memory, history
  <2> QED
    BY <1>3, <2>2, <2>3, PartsNext DEF Inv
<1> QED
  BY <1>4, <1>5, <1>6, <1>7

\* A start begins, or the process dies: nothing is known of its progress.
LEMMA ProcessSteps ==
  ASSUME Inv, StartProcess \/ Crash
  PROVE  Inv'
<1>1. SchemaType /\ ConfigType /\ SubnetType /\ PlaceType /\ HistoryType
  BY Parts DEF Inv
<1>2. /\ UNCHANGED <<stored, history>> /\ pc' \in {"create", "down"} /\ todo' = {}
      /\ values' \in {values, {}} /\ open' \in {open, FALSE}
  BY DEF StartProcess, Crash, GoTo
<1>3. SchemaType' /\ ConfigType' /\ SubnetType' /\ PlaceType' /\ HistoryType'
  BY <1>1, <1>2
  DEF stored, history, SchemaType, ConfigType, SubnetType, PlaceType, HistoryType
<1>4. Created' /\ Altered' /\ Seeded' /\ Migrated' /\ Moved'
  BY <1>2 DEF Inv, Created, Altered, Seeded, Migrated, Moved, stored, history
<1> QED
  BY <1>3, <1>4, PartsNext DEF Inv

(***************************************************************************)
(* The theorems.                                                            *)
(***************************************************************************)
LEMMA NextInv == Inv /\ [Next]_vars => Inv'
<1> SUFFICES ASSUME Inv, [Next]_vars PROVE Inv'
  OBVIOUS
<1>1. CASE UNCHANGED vars
  BY <1>1 DEF vars, stored, memory, history, Inv, TypeOK, Created, Altered, Seeded,
              Migrated, Moved
<1> QED
  BY <1>1, SchemaSteps, SeedStep, ReadStep, InsertStep, CleanStep, RunningSteps, ProcessSteps
  DEF Next, dbInit

LEMMA InvAlways == Spec => []Inv
<1>1. Init => Inv
  BY InitInv
<1>2. Inv /\ [Next]_vars => Inv'
  BY NextInv
<1> QED
  BY <1>1, <1>2, PTL DEF Spec

\* The database and the place db.Init is at keep their types.
THEOREM StartTypeCorrect == Spec => []TypeOK
<1>1. Inv => TypeOK
  BY DEF Inv
<1> QED
  BY <1>1, InvAlways, PTL

\* Wherever the process dies, the subnet of the older version is in the old keys or
\* in a row: InsertSubnet runs only while no key has been deleted, and
\* cleanOldDHCPKeys only when there is a row.
THEOREM UpgradeKeepsRange == Spec => []OldRangeKept
<1>1. Inv => OldRangeKept
  BY InvImplies
<1> QED
  BY <1>1, InvAlways, PTL

\* A start that ends has done everything, however many starts before it were cut
\* short and wherever.
THEOREM StartCompletes == Spec => []ReadyComplete
<1>1. Inv => ReadyComplete
  BY InvImplies
<1> QED
  BY <1>1, InvAlways, PTL

\* A step of a start leaves what is saved as it is.
KeepsSaved ==
    Starting =>
        /\ \A k \in ConfigKeys : config[k] # "absent" => config'[k] = config[k]
        /\ DOMAIN subnets # {} => subnets' = subnets
        /\ resources => resources'

LEMMA StepKeepsSaved == Inv /\ [Next]_vars => [KeepsSaved]_vars
<1> SUFFICES ASSUME Inv, Next, Starting PROVE KeepsSaved
  BY DEF KeepsSaved
<1>1. CASE CreateTables \/ ensureColumn \/ migrateHostResource \/ Exec
  BY <1>1 DEF CreateTables, ensureColumn, migrateHostResource, Exec, stored, KeepsSaved
<1>2. CASE seedDefaultConfig
  <2>1. \A k \in ConfigKeys : config[k] # "absent" => config'[k] = config[k]
    BY <1>2, Parts DEF Inv, ConfigType, seedDefaultConfig, insertDefaultConfig
  <2> QED
    BY <1>2, <2>1 DEF seedDefaultConfig, KeepsSaved
<1>3. CASE migrateDHCPSubnet \/ cleanOldDHCPKeys \/ StartProcess \/ Crash
  BY <1>3 DEF migrateDHCPSubnet, cleanOldDHCPKeys, StartProcess, Crash, stored, KeepsSaved
<1>4. CASE InsertSubnet
  BY <1>4 DEF InsertSubnet, Inv, Migrated, KeepsSaved
<1>5. ~(\/ \E k \in ConfigKeys : SetConfig(k)
        \/ CreateDHCPSubnet
        \/ \E id \in DOMAIN subnets : DeleteDHCPSubnet(id)
        \/ ChangeResources)
  BY DEF SetConfig, CreateDHCPSubnet, DeleteDHCPSubnet, ChangeResources, Starting
<1> QED
  BY <1>1, <1>2, <1>3, <1>4, <1>5 DEF Next, dbInit

\* No start changes a value that is set or a table that has rows: the defaults are
\* only for what is absent (insertDefaultConfig, migrateDHCPSubnet).
THEOREM StartKeepsSaved == Spec => SavedKept
<1>1. Inv /\ [Next]_vars => [KeepsSaved]_vars
  BY StepKeepsSaved
<1>2. Spec => [][KeepsSaved]_vars
  BY <1>1, InvAlways, PTL DEF Spec
<1> QED
  BY <1>2 DEF SavedKept, KeepsSaved

===============================================================================
