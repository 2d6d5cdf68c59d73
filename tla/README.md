# A TLA+ verification of cpphibernate

cpphibernate is an object-relational mapper for C++14. A schema declared with
`constexpr` macros tells which members of which classes are columns; a driver
for MariaDB turns `init`, `create`, `read`, `update` and `destroy` of an object
into SQL statements. This directory holds TLA+ models of the driver, TLC
configurations that check them on small schemas, and proofs, for every schema,
of results about the engine behind `create`, `update` and `destroy`, the
transaction lock, the initialisation, reads, the statement caches and the
conversion of values.

Below, `table.cpp`, `field.cpp` and `schema.cpp` are those of
`src/cpphibernate/driver/mariadb/schema/`; `helper/`, `impl/` and `*.inl` are
under `include/cpphibernate/driver/mariadb/`, the other headers under
`include/cpphibernate/`.

## 1. The system

### Components

| Component | Code | State | Operations | Model |
|---|---|---|---|---|
| Transaction lock | `helper/transaction_lock.h` | a counter and a transaction pointer, both static: one pair per process | constructor, `commit()`, destructor | `TransactionLock`, `AtomicUnit`, `TransactionLockProofs` |
| Create/update engine | `impl/create_update.h`, `table.cpp` 930-1340, `table.inl`, `field.inl`, `field.cpp` | the call stack, the key members of the objects, the rows | `create`, `update` of an object or a container, recursively over base tables, one fields and containers | `Persistence`, `PersistenceSafety`, `Database`, `AtomicStore`, `PersistenceTypeProofs`, `PersistenceProofs`, `PersistenceDataProofs` |
| Destroy and cleanup | `impl/destroy.h`, `table.cpp` 440-595 and 1659-1707 | the rows | `destroy`, `destroy_cleanup` | `Persistence`, `Database` |
| Schema linking | `schema.cpp` 20-139, `field.inl` | pointers between tables and fields, set once | `schema_t::update` | `HibernateSchema` (its result), `SchemaProofs` |
| Filter | `schema/filter.inl` | tables, fields, a direction and a cache id | `set_inclusive`, `set_exclusive`, `clear`, `is_excluded` | `Filter`, `StatementCache` |
| Driver and context | `driver/mariadb/mariadb.h`, `context.h`, `helper/context.h` | connection, filter, schema | the calls of the client, `lock()`, another connection | `Persistence`, `SchemaInit`, `ReadEngine` |
| Initialisation | `schema.cpp` 155-231, `table.cpp` 599-928 and 1567-1582 | what the server has | `init(recreate)` | `SchemaInit`, `SchemaInitProofs`, `Database` |
| Statement caches | `table.cpp` 1397-1518, `field.cpp` | one statement or map of statements per table or field | built at first use, executed again | `StatementCache`, `ReadEngineProofs`; in `SchemaInit` the one `CREATE TABLE` and `INSERT` share |
| Select builder and read | `table.cpp` 33-441 and 1595-1657, `impl/read.h`, `table.inl`, `field.inl` | aliases, read contexts, the position in the row, the many fields still to be read | `read` | `SelectRead`, `ReadEngine`, `ReadSafety`, `SelectReadProofs`, `ReadEngineProofs` |
| Where, limit, order by | `impl/where.h`, `impl/limit.h`, `impl/order_by.h`, `modifier/` | statements, one per list of modifier types | expression trees to text | `ReadEngine` (what they select) |
| Types | `types.*`, `helper/type_properties.h`, attributes in `field.cpp` 66-140 | none | conversions, SQL functions around a value | `Conversions`, `SelectReadProofs` |
| Keys, compile-time schema, misc | `helper/key_properties.h`, `schema/`, `misc/` | none | type functions | constants of the models |

### How they interact

A call of the client (`context.create(object)`) makes the driver build a
context, and `create_update_impl_t` takes a lock, finds the table of the
static type and hands over to the table of the dynamic type. That table's
`execute_create_update` calls itself for the base table, calls
`create_update_impl_t` for every object in a one field, sends its own `INSERT`
or `UPDATE`, and calls `create_update_impl_t` for every container; an update
also deletes the part a one field held before, cuts the elements of a container
loose before it writes them, and deletes those nobody owns afterwards. Every
function on the way takes a lock of its own. The innermost state they share is
the process-wide counter of the locks, the rows of the server, the key members
of the client's objects, which double as the test "is it stored?", and the
statement objects each table caches.

A read builds one `SELECT` over the table, its base tables, the parts in one
fields and, if the class of the object is not known before, its derived tables.
Another piece of code walks the same tables over the row that comes back and
takes value after value by position; nothing else ties a value to its field. The
objects are made through read contexts, which know whether a value, a nullable,
a pointer or a container is to be filled; containers are noted and read by
further `SELECT`s, recursively, once all rows are through. The `SELECT` and the
`UPDATE` come from caches whose key stands for the filter by the types of its
arguments only.

### What is hard

* **The lock** is shared by all connections of a process, its objects are
  `unique_ptr`s released in any order, and its constructor may throw after it
  has raised the counter.
* **The engine** works on a graph of objects with statements whose order
  matters: the foreign keys of the server act on every `DELETE` by cascading or
  by setting columns to NULL, and a later statement of the same call may find
  its row gone. Keys decide between `INSERT` and `UPDATE` per object, so that
  one call mixes both; the context (filter, owner, noted derived table) is
  handed from object to object and must not leak.
* **Failures** in the middle: the locks of all functions must be given back and
  the work of the whole call undone, unless the client holds a lock.
* **Sequences of calls**: objects are created, edited, moved, replaced,
  destroyed and created again; what an earlier call left in the rows, in the
  key members or in a cached statement is there in the next.
* **Reads** rest on two walks over the schema that must agree for every filter,
  hierarchy and kind of member, on flags that are handed through them, on places
  in objects that must not move while later `SELECT`s fill them, and on
  conversions that must undo each other.
* **Initialisation** consists of statements that commit by themselves: it can
  stop anywhere and be repeated, in another process, with another order of the
  tables.

No thread and no message is involved: the program runs in the client's thread
on one connection. What interleaves is the client's edits with the calls, the
client's lock with the locks of the calls, and the statements with what the
server does by itself.

### What makes each component correct

* Transaction lock: the counter is the number of live locks; the pointer is set
  while it is up; one session at most is in a transaction and it is the
  pointer's; nothing is committed while an inner lock lives; what is done under
  the locks of a connection up to the effective `commit()` is one atomic unit of
  work, and what is done after it under a lock that is still held is not.
* Create and update: after a call that returns, the database holds the objects
  it should have saved with the order of their containers and their dynamic
  type; what the filter excludes stays; no row is left without an object; a
  call on objects in order does not throw; other objects are not touched.
* Failure: a call that throws leaves the rows as they were.
* Destroy: all rows of the object and of what it owns go, and no others.
* Initialisation: an `init()` that returns leaves the whole schema, one that
  stopped can be repeated, and none writes rows.
* Read: columns selected and columns consumed agree; what was stored is read,
  all of it but what the filter excludes, and nothing else; a later `SELECT`
  leaves alone what an earlier one read.
* Statement caches: the statement executed is the one the filter now asks for.
* Conversions: reading undoes writing.

## 2. The modules

```
AtomicUnit <--refines-- TransactionLock <-- TransactionLockProofs
                                    ^------ MCTransactionLock

                                               AtomicStore <--refines--.
HibernateSchema <-- Database <-.                                       |
     ^  ^  ^------- Filter  <-- Persistence <---------- PersistenceSafety <-- MCPersistence{Many,One,NotNull,Poly,Type}
     |  |                                                     ^
     |  '-- SchemaProofs <------------------------------------+-- PersistenceTypeProofs
     |            ^                                                   ^-- PersistenceProofs
     |            |                                                           ^-- PersistenceDataProofs
     |            '------ SchemaInitProofs
     |                        |
     '----- SchemaInit <------+-- MCSchemaInit

Filter <+-- StatementCache <-----------.
        |                              |
Database <- Conversions <- SelectRead <-- ReadEngine <-- ReadSafety <-- MCRead
                               ^              ^
SchemaProofs <-------- SelectReadProofs <-- ReadEngineProofs
```

**AtomicUnit** is the abstract specification of a transaction: work is added
while the unit is active and becomes durable or vanishes as a whole. A unit that
is committed may go on ("spent"): what is executed then is durable statement by
statement.

**TransactionLock** is `transaction_lock.h` with one action per constructor
(`BeginTransaction`, `BeginThrows`), `commit()` (`CommitTransaction`),
destructor (`CloseTransaction`) and statement (`Execute`). `counter` and `txn`
are the two statics, `spent` says whether the transaction of the pointer was
committed; `open`, `pending` and `durable` are the server's side. The
counter is compared and changed as the code does it, so a lock that finds it
raised by a failed constructor never starts a transaction. `lock()` hands the
client a `unique_ptr` with a public `commit()`, so nothing makes it release a
lock it has committed: the counter stays at 1 and the pointer set, locks taken
after that start no transaction, and their statements commit one by one, until
the last of them is released.

**HibernateSchema** states what `schema_t::update()` derives from a schema that
is given as constants: the chain of base tables, derived tables, and which
fields are data, one (foreign key in the owner's row) and many fields (foreign
key in the element's row).

**Database** is the MariaDB server as far as the statements need it. A row has
the columns `build_init_stage1_query` declares; `SatisfiesKeys` and
`DeleteRows` are the constraints of `build_init_stage2_query` (cascade, set
NULL) and the joins of `delete_query_builder_t`.

**Filter** computes what `set_inclusive` and `set_exclusive` exclude.

**StatementCache** is the two maps of a table, `get_statement_select()` and
`get_statement_update()`, as one function from slots and cache ids to
statements. A statement is what it is for and what it leaves out.

**Persistence** is the engine. Its central variable is `stack`, the C++ call
stack with one record per active function (see the head of the module), and
each of its actions is the code between two SQL statements or calls:

| Action | Code |
|---|---|
| `ApplyBegin`, `ApplyEnd` | `create_update_impl_t::apply` with `table_polymorphic_t::create_update_intern`: default key test, lock, dynamic type, commit |
| `EachBegin`, `EachNext` | the same for a container, element by element with its index: the client's or one in a many field |
| `ExecKey` | `generate_value` or `get_primary_key` (with `get_key_from_base`) |
| `ExecBase` | `create_update_base`, with the noted `derived_table` |
| `ExecOne`, `ExecAfter` | a one field: its object, its key, the `DELETE` of the old part |
| `ExecWrite` | the `INSERT` or `UPDATE`, the test of the affected rows, the key member |
| `ExecMany`, `ExecCleanup` | a many field: the `UPDATE ... SET NULL`, its elements, the cleanup |
| `Cleanup` | `destroy_cleanup` and `execute_foreign_many_delete` |
| `DestroyBegin`, `DestroyDelete`, `DestroyEnd` | `destroy_impl_t::apply`, `destroy_exec` |
| `StatementFails` | the server raises an error |
| `Edit`, `Calls` | the client's edits and calls |
| `TakeLock`, `CommitLock`, `ReleaseLock` | the client's lock: `lock()`, its `commit()`, its destructor; calls and edits may come between any two of them |

An exception (`Throw`, or `Abort` for an injected failure) unwinds the stack at once: nothing catches it on the
way. `db` is what the session sees and `durable` what is committed. `counter`
is the counter of TransactionLock for the one connection used here: the
function that finds it at 1 when it commits makes `db` durable, and an
exception that leaves no lock brings `durable` back. `spent` is set from the
`commit()` of the client's lock to its release: calls in between run at counter 2
or more without a transaction, and each of their statements is durable at once
(`Executes`), also those of a call that throws later.

**PersistenceSafety** holds the properties. `call` records the rows, keys and
stored objects a call began with and how it ended; it is an auxiliary variable
no guard of the engine reads.

**AtomicStore** is what a client is promised of the database: work is done while
a unit is active, is seen by nobody else, and becomes durable as a whole or is
undone; work after the commit of a unit that goes on is durable piece by piece.
`ImplementsStore` says that the engine implements it; "active" stands for a
counter above 0, "spent" for a client's lock that was committed and is held.

**SchemaInit** is `init()`: `todo` holds the statements still to be sent,
`text` what each table's `_statement_create_table` holds. The client may stop it
at any statement (error or end of the process), repeat it, change the
connection, create and destroy objects in between. The order of the tables is
that of a `std::map` over type ids, so any permutation.

**Conversions** says what a value becomes on its way: a text of some form by
`type_properties`, the SQL functions of the field's attributes and of its type
around it, and back. Functions are names; two chains cancel if each function
stands opposite to its inverse.

**SelectRead** is one `SELECT`: `AddTable` is `select_query_builder_t`, and
builds columns and joins; `Bindings` and `Cell` are the server; `ReadTable` is
`data_extractor_t`. Which tables `read_table()` calls itself for depends on the
schema, the filter and the kind of read, not on the row. So `ReadTable` gives the
sequence of steps (create a dataset, take a key or a field, go into a part and
back, note the containers), and `Run` executes them on a row, cell after cell,
with the position, the flag `skip` and the contexts that are open. Both recursions
are functions over a number of levels (`Levels`), at which a schema without
cycles is through; where one fields lead back to their own table the code never
returns, and neither function says anything. `Context`, `EmplaceError` and
`FinishError` are the read contexts of `impl/read.h`. What is read is a function
from places to objects; a place is the path of fields and indices that leads to
it.

**ReadEngine** is `context.read()`. `todo` is what waits on the C++ call stack:
the reads of many fields, of the innermost object first. Each `Select` step
picks the statement from StatementCache, executes it on the rows of the world
and extends the heap; the client sets filters, updates (which fills the cache)
and reads between the calls. The rows come from `Store`, which writes the
objects of a world as `CallSaves` says Persistence does.

**ReadSafety** defines the objects a call asks for and the heap they should make
(`Image`), from the objects and the filter alone, without columns, joins or
contexts.

Definitions that only serve as wrong variants stand before the definition they
mutate and are marked "Mutant"; PROJECT.json pairs each with the property that
must catch it.

## 3. What the runs check

| Run | Schema and bounds | Properties |
|---|---|---|
| `lock` | 3 locks, 1 connection, 3 statements | `TypeOK`, `CounterIsLocks`, `QuiescentReset`, `InnerCommitIsVoid`, `ImplementsUnit` |
| `lock_shared` | 3 locks, 2 connections, `START TRANSACTION` may fail | `CommitHasTransaction`, `PendingIsOwned`, `Ownership`, `FailedStartIsPermanent` |
| `containers` | `tbl_derived3` with a vector of `tbl_test3` and a base table with a list of them, 2 elements that may be renewed (one has keys for two rows at a time), 3 filters | `TypeOK`, `NoGarbage`, `ExcludedIsKept`, `ExcludedElementsStay`, `LegalCallSucceeds`, `CallSaves` |
| `one_fields` | `tbl_base`, `tbl_derived2`, `tbl_test2`; 2 objects with 2 nullable one fields each, alone or in one container, 1 part, 2 filters | `NoGarbage`, `DurableIsWhole`, `CallIsLocal`, `LegalCallSucceeds`, `CallSaves` |
| `faults` | `tbl_base`, `tbl_derived1`, `tbl_test1`; a part in a NOT NULL column, 2 values, 4 filters, failing statements, the client's lock with calls before and after its `commit()`; symmetry of the two values | `LocksMatchStack`, `IdleIsCommitted`, `FailedCallLeavesNoTrace`, `LockDefersCalls`, `ImplementsStore`, `ExcludedValuesAreKept`, `LegalCallSucceeds`, `CallSaves` |
| `polymorphic` | a list of base class pointers, 2 elements of different classes, 2 filters, fairness | `NoGarbage`, `CallSaves`, `CallsEnd` |
| `init` | 3 tables in any order, 2 objects, failing statements | `TypeOK`, `InitCompletes`, `InitIsRepeatable`, `RecreateEmpties` |
| `read` | 6 tables, 9 objects in 3 arrangements, 3 filters, 24 reads with modifiers and reads of each object, 2 calls | `ReadMatches`, `LegalReadSucceeds`, `RowsAreRead`, `StatementIsCurrent`, `ReadsOnlyAdd` |

What they say:

* `CallSaves`: when a create or an update returns, every row of every object it
  reaches and may write says what the object says, including the position of
  each element, the keys of base rows and parts, and `__type`; containers have
  exactly the elements they hold. Of the objects of a container it is said if
  they are in order: an update of a container to whose first object the part of
  the second has moved returns, and the part is gone.
* `NoGarbage`: between calls every row belongs to an object some call created,
  whatever was replaced, dropped or destroyed.
* `LegalCallSucceeds`: a call whose objects are in order (`InOrder`) does not
  throw. "In order" is as weak as the code allows: an object is new or fully
  stored, a stored part is where the database has it, an `UPDATE` has a column
  to set. Its exclusions are the limits found: moving an element between two
  containers or a part between two fields, replacing a part in a NOT NULL
  column, one fields that refer to a table with derived tables.
* `ExcludedIsKept`, `ExcludedValuesAreKept`, `ExcludedElementsStay`,
  `CallIsLocal`: what an update must leave alone, in the columns its filter
  excludes and in the rows of other objects. The first compares the database
  before and after an update, for all columns; for the columns of containers it
  depends on the schema, because an `INSERT` does not ask the filter: an owner
  the update has created takes the elements it holds, and may be gone at the end.
  The second is the part for values and parts, the third what holds of every
  step for elements. `CallIsLocal`
  speaks of objects that share no row; a part moved from one owner to another is
  shared until the old owner is updated, and is then deleted with it.
* `FailedCallLeavesNoTrace`, `IdleIsCommitted`, `LocksMatchStack`,
  `LockDefersCalls`, `ImplementsStore`: atomicity of a call and the meaning of
  the client's lock. A call that throws under the client's lock leaves its
  partial work in the transaction, and a client that commits then makes it
  durable; one that throws after the lock's `commit()` has made it durable
  already: that is why the first is stated for calls without such a lock.
  `LockDefersCalls` ends with the lock's `commit()`. What the code does from there
  to the release is in `ImplementsStore`: nothing is undone, and every statement
  is durable when it is executed.
* `CounterIsLocks`, `Ownership`, `PendingIsOwned`, `QuiescentReset`,
  `InnerCommitIsVoid`, `CommitHasTransaction`, `FailedStartIsPermanent`,
  `ImplementsUnit`: the same of the lock by itself, for several locks that
  overlap in any way, committed or not.
* `DurableIsWhole`: other readers see hierarchies with all their rows.
* `CallsEnd`: every call returns or throws, through `destroy_cleanup`'s walk over
  the hierarchy and the containers.
* `ReadMatches`, `LegalReadSucceeds`: a regular read (see below) does not throw
  and leaves in the client's memory exactly the objects the call asks for, with
  class, keys, values, parts and elements in their order.
* `RowsAreRead`: no read, regular or not, ends with columns that nobody took.
* `ReadsOnlyAdd`: however nested the containers are, no `SELECT` of a call
  writes where an earlier one has; this holds for irregular reads as well.
* `StatementIsCurrent`: a cached `SELECT` or `UPDATE` leaves out what the filter
  excludes that is set when it is executed.
* `InitCompletes`, `InitIsRepeatable`, `RecreateEmpties`: an `init()` that
  returns leaves everything in place; after any failure or restart, and in any
  order of the tables, the next one is refused nothing, as long as no `INSERT`
  stands in the place of a `CREATE TABLE`.

Deadlock is checked in every run of Persistence and SchemaInit; the client can
always do something, so a deadlock would be an engine that got stuck. Run
`read` ends after two calls, and does not check it.

### Irregular reads

`Regular` (ReadSafety) lists the reads that the code does not do right; each of
its conditions was found by a counterexample, and without any one of them the
run fails.

| Condition | What happens without it |
|---|---|
| `TablesSelected` | `has_value()` peeks at the column after the last one read to see whether a derived table has a row; for an excluded table that is somebody else's column, or none |
| `NoNullPartWithBase` | a part's base table is inner-joined after the part's left join: an owner without the part is not found |
| `NoPolymorphicPart` | `__type` of a part is selected under the table's bare name and its class is looked for below the class the read began with |
| `NoPlainPointers` | a container of pointers to a class outside any hierarchy throws "expected dynamic data" |
| `NoManyInMovedValues` | a growing vector moves the elements whose containers are still to be read: their contexts dangle |
| `AllConvertible` | values of the fields that are not `Convertible` come back garbled |
| `ModifiersFit` | a destination for one object gets several or none, a clause names a column that is not joined, `order_by` is written as `ORDER_BY` |

The documentation promises none of these cases in so many words, which is why
they are conditions and not findings.

### Disagreements found

Four runs are expected to fail, each on one property that a test or the
documentation states. PROJECT.json quotes the lines.

* `not_null_part` (`ReplacingPartSucceeds`): replacing the part in a NOT NULL
  one field deletes the old part first, the cascade takes the owner's row, and
  the owner's `UPDATE` throws. `test/cpphibernate_update.cpp` expects the
  sequence to work; its mock has no foreign keys.
* `key_from_base` (`KeyFromBaseSucceeds`): `get_statement_key_from_base`
  compares a `BINARY(16)` column with the text of a key.
* `type_of_part` (`DurableIsWhole`): the noted `derived_table` leaks into the
  parts of a base class, which are stored with the wrong `__type`.
* `init_again` (`DestroyedStaysDestroyed`): `get_statement_insert_into` stores
  the `INSERT` in `_statement_create_table`, and the next `init()` executes it
  with the values of the last object.

The runs set `FoundRows = TRUE`: the connection reports matched rows. With
`FALSE`, as the connection of the repository's README is made, an `UPDATE` that
changes nothing affects no row and the code throws, so that `LegalCallSucceeds`
fails.

### Bounds, and why they are enough

* Schemas are cut from `test/test_schema.h`, one feature per run: containers
  side by side, base table with one fields, NOT NULL part, polymorphic elements.
  Two of a kind (two containers, two fields, two owners, two elements) are what
  the ordering hazards need: an element or a part in the wrong one of the two.
* `KeyPool` gives each class of each object its own keys, one or two. Two let an
  object be stored, replaced by a new one with the same place, and stored
  again while its old row may still be there. Keys are opaque and fresh, so
  which one is taken makes no difference; `KeysLeft` keeps a call from beginning
  when the pool could run out.
* `Renewable` names the objects that may be replaced by new ones.
* One value per data field is enough where rows are only counted and linked;
  two are used in `faults`, where what is written matters.
* The number of calls, edits and failures is not bounded: TLC explores all
  sequences over these sets.
* `Groups` is one container of both objects of `one_fields`; the objects play the
  same part otherwise, so that its other order adds nothing.
* The worlds of `read` give each kind of member (value, nullable, pointer, list,
  vector of pointers) both an empty and a full case, with the two elements in an
  order that is not that of their keys. `MaxCalls` is 2: the rows do not change,
  and what one call leaves for the next is the cache and the filter, for which a
  pair is enough.
* Three locks: the one that began, one inner, and one that overlaps both. The
  three statements leave one each for before, between and after two commits.
* The client of Persistence has one lock at a time, which it may commit and go on
  using; several of its locks, on one or two connections, are in TransactionLock.
* In `faults` the two values of a data field may be exchanged everywhere without
  changing what is checked, which has no liveness: TLC takes one state of each
  pair (`MCSymmetry`).
* Three tables in SchemaInit give references in both directions of the order;
  two objects let a destroyed and a live one coexist.

### Fairness

Only `CallsEnd` needs it. `FairSpec` adds `WF_vars(Step)`: the program has one
thread, which runs a function it has called to its end; nothing of `Step` waits
for anybody. Failing statements, edits and calls carry no fairness.

No liveness is stated of reads: every read of the run ends by the order in which
`todo` is worked off, over a schema without cycles.

## 4. What is proved

Eight modules hold the theorems and their lemmas. Everything is proved from
the assumptions the modules name about their constants, which TLC evaluates in
the runs.

### The engine

`PersistenceTypeProofs`, `PersistenceProofs` and `PersistenceDataProofs` prove
for every schema that has finitely many tables and fields, every set of objects
with any members, every set of filters, every sequence of calls, edits and
faults, and with or without a client's lock:

| Theorem | Statement |
|---|---|
| `EngineTypeCorrect` | `Spec => []TypeOK` |
| `LocksCorrect` | `Spec => []LocksMatchStack` |
| `IdleCommitted` | `Spec => []IdleIsCommitted` |
| `FailedLeavesNoTrace` | `Spec => []FailedCallLeavesNoTrace` |
| `ClientLockDefers` | `Spec => LockDefersCalls` |
| `PersistenceImplementsStore` | `Spec => ImplementsStore` |
| `KeysCorrect` | `KeysAreKept` of `db` and of `durable`, always: the constraints hold at every statement |
| `ExcludedCorrect` | `Spec => []ExcludedValuesAreKept` |
| `ElementsCorrect` | `Spec => ExcludedElementsStay` |

The assumptions are `SchemaAssumption` and `PersistenceAssumption`: objects have
tables, the keys of different objects differ, and so on. Neither acyclic schemas
nor objects in order are needed.

*The stack* (`EngineInv`). The types are not inductive: a `create()` reports the
key of an object, which is a key only because the function it called has set it;
`ExecCleanup` follows the field with the number the frame says, which is one only
because the frame found it before; and the counter is decremented, so that it is
a number only because it counts locks. `EngineInv` therefore adds `Shape` (of two
adjacent frames the upper one is a function the lower one calls at that point,
and the last one is what the client called) and `Settled` (which keys are set
when a frame is where it is). Lemmas per sort of step (a frame is replaced, a
function is called, a function returns) carry both over; then there is one lemma
per action.

*The transaction* (`StoreInv`). Every step of the engine is of one of four sorts
(`StepParts`): a function takes its lock, it works under a lock, it returns and
commits, or an exception ends the call. `CommitInv` says that what is
durable is what the call began with until it ends, unless the client has
committed the lock it holds: from there it is what the session sees, after every
statement. That a step works under a
lock at all is the point: it holds because every function that sends a statement
was called, along `Shape`, by one that has a lock, at the bottom of the stack
(`BottomLocks`); that a commit with counter 1 ends the call is the same argument
backwards. The refinement of `AtomicStore` is one step per sort.

*The rows* (`DataInv`). `IsKept` is that the constraints hold and that every
foreign key column is NULL or names a row. A `DELETE` keeps it because what it
takes is closed under the cascades (`DeleteRowsParts`, from `ClosureClosed`), an
`INSERT` because the server checks it and its key is new (`KeysAreFresh`: the key
of a function that has still to send its `INSERT` names no row, named none when
the call began, and is that of no other such function). What
an update keeps is carried from statement to statement: an `UPDATE` leaves the
columns of the filter out, an `INSERT` writes rows the call began without, and a
cascade leaves NULL only for a row that is gone; a key that is gone does not
come back, as keys are fresh. For elements, `FramesAreMarked` says of every
frame that hands an owner to its elements by an excluded field, that this owner
is new.

`SchemaProofs` has the lemmas about what the recursive functions of
HibernateSchema return for any arguments, which the other modules cite: the
fields the vectors of a table hold (`FieldVectors`), and that `Closure` is closed
under the links it is given and takes nothing else (`ClosureClosed`,
`ClosureLeast`). They say nothing about the code by themselves; which links a
`DELETE` follows is in Database, and that they are the right ones in
`KeysCorrect`.

The induction theorems of the library take operators as parameters, which the
provers do not instantiate. `NatSetInduction`, `RecursiveFunction` and
`RecursiveType` state induction and recursion over natural numbers with sets and
functions instead, from the library's first-order facts about well-founded
relations. That `Closure` needs no more rounds than there are elements is by
cardinality: a round that adds nothing is the last.

### The transaction lock

`TransactionLockProofs` proves for every finite set of locks, every set of
connections and statements, and whether or not `START TRANSACTION` may fail:

| Theorem | Statement |
|---|---|
| `TypeCorrect` | `Spec => []TypeOK` |
| `CounterCorrect` | `Spec => []CounterIsLocks` |
| `OpenOwned` | `Spec => []OpenIsOwned` |
| `OwnershipHolds` | `Spec => []Ownership` |
| `PendingOwned` | `Spec => []PendingIsOwned` |
| `CommitSafe` | `Spec => []CommitHasTransaction`: no null dereference in `commit()` |
| `ResetWhenQuiescent` | `Spec => []QuiescentReset` |
| `FailedStartStays` | `Spec => FailedStartIsPermanent` |
| `InnerCommitVoid` | `Spec => InnerCommitIsVoid` |
| `LockImplementsUnit` | on one connection without failing starts, `Spec => ImplementsUnit` |

The assumptions are those of `LockAssumption` (the set of locks is finite and
the null value is no connection), which TLC evaluates in both runs. The
argument: none of the properties is inductive by itself. `CommitHasTransaction`
speaks of the pointer at counter 1, which says nothing unless the counter is
known to be the number of locks; that the last destructor ends the right
transaction needs that the open session is the pointer's. `Ownership` collects
this: counter and pointer rise and fall together unless a constructor threw, a
constructor that threw leaves counter 1 or more with a null pointer for good, the
pointer's session is in its transaction exactly until a `commit()` was effective,
whatever locks come and go before and after, and only that session is open and
has work pending. `TypeOK /\ CounterIsLocks /\ Ownership` is inductive,
one step per action; the arithmetic of the counter rests on lemmas about the
cardinality of the held locks when one is taken or released. The refinement
shows that every action is a step of `AtomicUnit` or a stutter under the mapping
"active" = the session is in its transaction, "spent" = the pointer is set and
the session is in none.

### Initialisation

`SchemaInitProofs` proves for every schema, every order of the tables, every
number of objects, and whether or not statements may fail:

| Theorem | Statement |
|---|---|
| `InitTypeCorrect` | `Spec => []TypeOK`: among others, rows are in tables that exist, and so are foreign keys |
| `InitLeavesCompleteSchema` | `Spec => []InitCompletes` |
| `RecreateLeavesNoRows` | `Spec => RecreateEmpties` |
| `InitRepeatable` | `Spec => InitIsRepeatable` |

The assumptions are `SchemaAssumption` and `InitAssumption`; that tables form no
cycle is not needed. `InitCompletes` says nothing while statements are still to
be sent, so it is not inductive. `InitInv` adds `Progress`, which ties `todo` to
the server: each statement a complete schema needs is still in `todo`, or has
had its effect and no `DROP` is about to undo it; and only the head of `todo`
can be a `DROP`. `Emptied` adds what `RecreateEmpties` needs: once the schema was
dropped there are no rows, and a table that is there again was made by a
`CREATE TABLE`, so that an `INSERT` in its place can only be refused. The lemma
`StatementsOfInit` establishes both for the list `schema_t::init()` sends,
`StatementAdvances` and `StatementEmptied` for each statement. The invariant was
checked with TLC on the instance of run `init` before it was proved.

`InitIsRepeatable` speaks of the statement that is next, so it needs what has
gone before: `RepeatInv` adds that `todo` is sorted by what the statements need
(`Sorted`: drop, schema, use, functions, tables, constraints), so that whatever the head
needs has had its effect; that the rows of an object are all there or none is
(`RowsTogether`, over the chain of base tables, which `ClosureClosed` shows to be
closed); and that an object which was not destroyed has its rows if its `INSERT`
stands in the place of a `CREATE TABLE` of a table that exists (`InsertsKnown`).

### Reads

`SelectReadProofs` (one `SELECT`) and `ReadEngineProofs` (the calls) prove for
every schema, every world of stored objects, every set of filter settings and
every destination and modifier:

| Theorem | Statement |
|---|---|
| `WalkTakesColumns` | the steps of `read_table()` that take a cell are the columns `add_table()` writes, one by one and in their order |
| `ReadInvariant` | `Spec => []ReadInv` |
| `RowsRead` | `Spec => []RowsAreRead` |
| `ReadsAdd` | `Spec => ReadsOnlyAdd` |
| `ReadUsesCache` | `Spec => CacheSpec`: ReadEngine implements StatementCache |
| `ReadIsCurrent` | `Spec => []StatementIsCurrent` |

The assumptions are `SchemaAssumption`, `DeclarationAssumption` (every field is
declared once, by one table), `ReadAssumption` (fields are no numbers, so that a
place can be read in one way only), `EngineAssumption` (the kinds of
destinations) and, for the caches, `CacheAssumption`.

*Columns and cells.* `add_table()` writes the columns of the base table, the
type, the own columns, the parts and the derived tables; `read_table()` walks in
the same order but decides everything again from other flags: it asks whether to
create a dataset where the builder asks for `__type`, and goes by `read_derived`
and `is_dynamic` where the builder has `add_derived`. `Fits` says which arguments
of the two belong together, `Agrees` that for all such arguments the cells taken
are the columns written; `Agrees` is carried from one level of the recursion to
the next (`TableTaken`), with one lemma per part. A table the filter excludes
is the case that could go wrong: both still do the base table and the type, and
nothing else.

*Positions.* Each step moves the position by one if it takes a cell and else not
at all, whether or not it is skipped (`DoCounts`); so after a row that throws
nothing the position is the number of cells, and "not completely read" cannot be
thrown.

*Places.* `WalkMaking` says what the steps of a table do to a dataset at a place
`P`: they write at `P` and in the parts of what is there, never beyond a
container (`Spot`), and what they put on the list are containers in it
(`Beyond`), no two at the same place. That two steps of one walk do not meet is by
what they are for: the fields of a table and of its base and derived tables are
different ones (`DeclaredApart`), a part's are under its field, and a second
dataset of a container is under another index (`RowRead`, `RowsGathered`).

*The invariant.* `ReadsOnlyAdd` is about one step, but that the next `SELECT` of
`todo` writes nowhere where something was read is the work of all before it.
`ReadInv` says that no place on `todo` is at or in another (`Around`), and that
nothing read so far is at or in one; it is inductive because what a `SELECT`
writes is in `Spot` of its place, what it appends is in `Beyond` of it, and these
two do not meet (`SpotAround`, `FollowsApart`).

*The caches.* `CacheInv` is proved of StatementCache:

| Theorem | Statement |
|---|---|
| `CacheInvariant` | `CacheSpec => []CacheInv` |
| `CacheTypeCorrect` | `CacheSpec => []CacheTypeOK` |
| `CacheIsCurrent` | `CacheSpec => []StatementIsCurrent` |

`StatementIsCurrent` speaks of the last statement executed, and the next one may
come from the cache: the invariant adds `EntriesFit`, that every entry is what
any setting with its id would build. This rests on `IdsIdentify`, an assumption
about the client: no two of its settings have the same id and exclude different
things. The code does not see to it, because `set_filter_inclusive(x)` and
`set_filter_exclusive(x)` share their id; a client that uses both with the same
arguments gets the statements of the first.

*Values.* `ValueSurvives` (SelectReadProofs): for every convertible field with
any attributes, and every value of its type, what is stored, selected and set
again is the value. `Convertible` excludes `uuid` data fields, flags, nullable
timestamps and attributes of other types than strings; `Distinct` says that the
two special values are no texts. It is a theorem about operators, with one lemma
for the eight bit casts, one for the attributes' functions, one for those of the
types and one for the forms of the texts.

### Only model-checked

* `CallsEnd`: fairness and ENABLED are out of TLAPS 1.4.5's reach.
* `NoGarbage`, `LegalCallSucceeds`, `CallSaves` and `ExcludedIsKept` for
  containers do not hold of every schema and every graph of objects, so that
  theorems need more assumptions about both than the runs' instances state:
  `NoGarbage` fails where all containers are in a base class (section 5),
  `ExcludedIsKept` where an update creates an owner of existing elements (its
  part for values and parts is `ExcludedCorrect`, the step for elements
  `ElementsCorrect`), `CallSaves` where one
  object is in two places.
* `CallIsLocal`: a cleanup deletes every row of its table nobody owns, also
  another client's; the property holds where classes in containers are used as
  elements only.
* `DurableIsWhole`: its half about keys is `KeysCorrect`. Its half about `__type`
  is not true of every schema: besides the parts of run `type_of_part`, a cascade
  through a NOT NULL column of a derived table takes the row there and leaves the
  row of the base table with the `__type` of what is gone.
* `ReadMatches`, `LegalReadSucceeds`: what a read should make is `Image` of
  ReadSafety, a recursive set of objects, and tlapm has no SMT backend in a
  module with a RECURSIVE operator. Of the way from the rows to the objects the
  theorems above cover the columns, the positions, the values and that nothing is
  written twice; that the joins find the right rows is the runs'.
* `DestroyedStaysDestroyed`, `ReplacingPartSucceeds`, `KeyFromBaseSucceeds`: the
  code violates them.

## 5. Not modelled

* `destroy` of a container or a nullable: it throws before it does anything,
  because the key it asks for is that of a class without a table.
* Reading containers of nullables that are no pointers (every such read throws),
  abstract classes, and unordered containers. `vector` and `list` are the
  containers the tests use, and both are ordered.
* The conversion of `float` and `double`, the length of `VARCHAR` columns under
  attributes, and keys: they are opaque names.
* `where` with `and`, `or` or `not`, which does not compile, and the texts of the
  modifiers; what `where(equal(...))`, `limit` and `offset` select is modelled.
* Changes of the rows between the `SELECT`s of one read: that they are seen or
  not is the isolation level of the server.
* The steps and error checks of `schema_t::update()`. It runs once, when
  the schema is made, and sets pointers; HibernateSchema states what it leaves, and its
  assumptions what it checks.
* `shared_ptr` parts: an object has one place in the models.
* Schemas with cycles: `destroy_cleanup` and `delete_query_builder_t` recurse
  without end on them, and the one statement object per table would be shared
  by an outer and an inner call.
* A class whose only containers are in a base class: `destroy()` cleans up after
  the containers of the dynamic class, and the elements stay (`NoGarbage` fails
  on such a schema; the documentation does not speak of it).
* A class used both standalone and as an element of a container: the cleanup
  of any owner's update deletes its standalone rows. The documentation does not
  promise otherwise.
* Auto-increment keys of the README's example; the tests use UUIDs.
* Printing, and the compile-time declaration of schemas: no state, and covered
  by the tests.
* What cppmariadb does with a second `commit()` of the same transaction: the
  models take it to change nothing, as its session is in no transaction any more.

## 6. Plan

Done: the lock, initialisation, statement caches and conversions; the engine
with filters, faults and polymorphism; reads; the proofs of section 4. Next, in
this order:

1. **`TypesAreKept`** as a theorem, for schemas in which one fields are nullable
   or in root tables and refer to tables without derived ones.
2. **`LegalReadSucceeds`** as a theorem: `Image` as a function over levels, and
   from `WalkTakesColumns` that the cell of each column is that of the row its
   table's object is stored in.
3. **Linking** (`schema_t::update`): its error checks, and that the result does
   not depend on the order of the tables.
