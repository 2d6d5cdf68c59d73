--------------------------- MODULE StatementCache ---------------------------
(***************************************************************************)
(* The prepared statements of table_t that depend on the driver's filter:  *)
(* get_statement_select keeps one per table, kind of context and cache_id, *)
(* get_statement_update one per table, owner field and cache_id.  The      *)
(* cache_id stands for the types of the filter's arguments only.           *)
(***************************************************************************)
EXTENDS Filter

CONSTANTS
    Setting,            \* the filter settings the client uses
    NoStatement

\* A setting is a call of set_filter_inclusive(), set_filter_exclusive() or
\* clear_filter() with the tables and fields it is given.
Exclusions(s) ==
    CASE s.call = "clear"     -> NoFilter
      [] s.call = "inclusive" -> SetInclusive(s.tables, s.fields)
      [] s.call = "exclusive" -> SetExclusive(s.tables, s.fields)

\* cache_id: 0 after clear(), else get_unique_id<filter_t, T_args...>, the same
\* for both calls.
CacheId(s) == IF s.call = "clear" THEN <<>> ELSE <<s.tables, s.fields>>

\* What a statement is kept under, beside the cache_id.
SelectSlot(t, dyn) == <<"select", t, dyn>>
UpdateSlot(t, owner) == <<"update", t, owner>>
Slot == {SelectSlot(t, dyn) : t \in Table, dyn \in BOOLEAN}
        \cup UNION {{UpdateSlot(t, owner) : owner \in ForeignKeyFields(t) \cup {NoField}}
                      : t \in Table}

ASSUME CacheAssumption ==
    \A s \in Setting : /\ s.call \in {"clear", "inclusive", "exclusive"}
                       /\ s.tables \subseteq Table /\ s.fields \subseteq Field

\* What the client has to see to: no two of its settings exclude different
\* things under one id, as set_filter_inclusive(x) and set_filter_exclusive(x)
\* would.
ASSUME IdsIdentify ==
    \A s, u \in Setting : CacheId(s) = CacheId(u) => Exclusions(s) = Exclusions(u)

VARIABLES
    setting,            \* the filter as it was set last
    cache,              \* the maps: a statement per slot and cache_id
    executed            \* the last statement executed under this filter

cacheVars == <<setting, cache, executed>>

\* A statement's text follows from what it is for and what it leaves out.
Statement == [slot : Slot, without : SUBSET (Table \cup Field)]
Id == {CacheId(s) : s \in Setting}

Build(slot, s) == [slot |-> slot, without |-> Exclusions(s)]

CacheInit ==
    /\ setting \in {s \in Setting : s.call = "clear"}
    /\ cache = [entry \in {} |-> NoStatement]
    /\ executed = NoStatement

SetFilter(s) ==
    /\ setting' = s
    /\ executed' = NoStatement
    /\ UNCHANGED cache

\* Mutant: one statement per slot, whatever the filter.
PreparedOnce(slot) ==
    IF \E entry \in DOMAIN cache : entry[1] = slot
    THEN cache[CHOOSE entry \in DOMAIN cache : entry[1] = slot]
    ELSE Build(slot, setting)

\* get_statement_select(), get_statement_update(): find, or build and emplace.
Prepared(slot) ==
    IF <<slot, CacheId(setting)>> \in DOMAIN cache
    THEN cache[slot, CacheId(setting)]
    ELSE Build(slot, setting)

Execute(slot) ==
    /\ executed' = Prepared(slot)
    /\ cache' = [entry \in DOMAIN cache \cup {<<slot, CacheId(setting)>>} |->
                   IF entry = <<slot, CacheId(setting)>> THEN Prepared(slot) ELSE cache[entry]]
    /\ UNCHANGED setting

CacheNext ==
    \/ \E s \in Setting : SetFilter(s)
    \/ \E slot \in Slot : Execute(slot)

CacheSpec == CacheInit /\ [][CacheNext]_cacheVars

-----------------------------------------------------------------------------
\* The state of the cache, and of the filter that was set.
CacheTypeOK ==
    /\ setting \in Setting
    /\ DOMAIN cache \subseteq Slot \X Id
    /\ \A entry \in DOMAIN cache : cache[entry] \in Statement
    /\ executed \in Statement \cup {NoStatement}

\* A statement that is executed (table.cpp:1455-1483) leaves out what the filter
\* excludes now, whatever filters were set and statements kept before.
StatementIsCurrent ==
    executed # NoStatement => executed.without = Exclusions(setting)
=============================================================================
