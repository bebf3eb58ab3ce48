---------------------- MODULE DefinitionProviderProofs ----------------------
(***************************************************************************)
(* What DefinitionProvider guarantees for any number of threads, features, *)
(* configurations and reloads.                                             *)
(***************************************************************************)
EXTENDS DefinitionProvider, TLAPS

-----------------------------------------------------------------------------
(* The strengthening of TypeOK and SectionsReady that is inductive.        *)

LookupLabels == {"tryGet", "openScan", "scan", "parseMs", "findDn", "parseDn",
                 "tryAdd", "return"}

SearchLabels == {"scan", "parseMs", "findDn"}

\* Versions are those of contents the configuration has had.
VersionsExist ==
  /\ raised \in 1..Latest
  /\ floor \in 1..raised
  /\ alone \in 0..raised
  /\ dnVer \in 0..Latest
  /\ msVer \in 0..Latest
  /\ \A t \in Threads : held[t] \in 0..Latest

\* The section fields are written before _initialized is.
InitOrder ==
  /\ initialized => dnVer > 0 /\ msVer > 0
  /\ ~initialized => floor = 1 /\ alone = 0
  /\ \A t \in Threads :
       /\ pc[t] \notin InitLabels => initialized
       /\ phase[t] = "refresh" => initialized
       /\ pc[t] \in {"storeDn", "storeMs"} => held[t] > 0
       /\ pc[t] \in {"readMs", "storeMs", "markInit"} => dnVer > 0
       /\ pc[t] = "markInit" => msVer > 0

\* A search looks for a feature in a section list that exists.
SearchOK ==
  \A t \in Threads :
    /\ pc[t] \in LookupLabels => feature[t] \in Features
    /\ pc[t] # "idle" /\ job[t] = "get" => feature[t] \in Features
    /\ pc[t] \in SearchLabels => sec[t] \in 1..Latest
    /\ pc[t] = "nextMs" => list[t] \in 1..Latest
    /\ pc[t] \in LookupLabels /\ job[t] = "ms" => list[t] \in 1..Latest
    /\ pc[t] = "nextDn" => job[t] = "dn"
    /\ pc[t] = "tryAdd" => draft[t].schema # "error"

\* The inductive invariant.
IInv == TypeOK /\ VersionsExist /\ InitOrder /\ SearchOK

-----------------------------------------------------------------------------
\* A part of TypeOK holds as long as its variables do not change.
LEMMA Frames ==
  /\ ConfigTypes /\ UNCHANGED config => ConfigTypes'
  /\ CacheTypes /\ UNCHANGED shared => CacheTypes'
  /\ CallTypes /\ UNCHANGED <<pc, job, phase, held, feature>> => CallTypes'
  /\ SearchTypes /\ UNCHANGED search => SearchTypes'
  /\ DraftTypes /\ UNCHANGED draft => DraftTypes'
  /\ ListTypes /\ UNCHANGED listing => ListTypes'
  /\ HistoryTypes /\ UNCHANGED history => HistoryTypes'
<1>1. ConfigTypes /\ UNCHANGED config => ConfigTypes'
  BY DEF ConfigTypes, config, Version
<1>2. CacheTypes /\ UNCHANGED shared => CacheTypes'
  BY DEF CacheTypes, shared, Version, Entry
<1>3. CallTypes /\ UNCHANGED <<pc, job, phase, held, feature>> => CallTypes'
  BY DEF CallTypes
<1>4. SearchTypes /\ UNCHANGED search => SearchTypes'
  BY DEF SearchTypes, search
<1>5. DraftTypes /\ UNCHANGED draft => DraftTypes'
  BY DEF DraftTypes
<1>6. ListTypes /\ UNCHANGED listing => ListTypes'
  BY DEF ListTypes, listing
<1>7. HistoryTypes /\ UNCHANGED history => HistoryTypes'
  BY DEF HistoryTypes, history
<1> QED BY <1>1, <1>2, <1>3, <1>4, <1>5, <1>6, <1>7

\* What a content of the configuration is made of.
LEMMA Content ==
  ASSUME ConfigTypes, NEW v \in 1..Latest
  PROVE  /\ configs[v].ms \in Seq(Features \cup {NoName})
         /\ configs[v].dn \in SUBSET Features
         /\ configs[v].bad \in SUBSET Features
<1>1. configs[v] \in Configurations
  BY DEF ConfigTypes, Latest
<1> QED BY <1>1, ConfigurationAssumption

\* Sections read from a content that exists.
LEMMA LiveVersion ==
  ASSUME ConfigTypes, NEW v \in 1..Latest
  PROVE  Live(v) \in 1..Latest
BY DEF Live, ConfigTypes, Latest

\* The id of a section is a feature name or missing, whatever the index.
LEMMA IdType ==
  ASSUME ConfigTypes, NEW v \in 1..Latest, NEW i
  PROVE  IdAt(v, i) \in Features \cup {NoName}
<1>1. Live(v) \in 1..Latest
  BY LiveVersion
<1>2. configs[Live(v)].ms \in Seq(Features \cup {NoName})
  BY <1>1, Content
<1> QED BY <1>2 DEF IdAt

\* The types are preserved by every step.
LEMMA TypeStep ==
  ASSUME IInv, [Next]_vars
  PROVE  TypeOK'
<1> USE DEF TypeOK, IInv, Version
<1> USE NameAssumption, BoundAssumption
<1>1. ASSUME NEW t \in Threads, EnsureInit(t) PROVE TypeOK'
  <2>1. CallTypes'
    BY <1>1 DEF EnsureInit, CallTypes, Goto, Labels
  <2>2. UNCHANGED <<config, shared, search, draft, listing, history>>
    BY <1>1 DEF EnsureInit
  <2> QED BY <2>1, <2>2, Frames
<1>2. ASSUME NEW t \in Threads, ReadSections(t) PROVE TypeOK'
  <2>0. Latest \in Version
    BY <1>2 DEF ConfigTypes, Latest
  <2>1. CallTypes'
    BY <1>2, <2>0 DEF ReadSections, CallTypes, Goto, Labels
  <2>2. UNCHANGED <<config, shared, search, draft, listing, history>>
    BY <1>2 DEF ReadSections
  <2> QED BY <2>1, <2>2, Frames
<1>3. ASSUME NEW t \in Threads, StoreDn(t) PROVE TypeOK'
  <2>1. CacheTypes'
    BY <1>3 DEF StoreDn, CacheTypes, CallTypes
  <2>2. CallTypes'
    BY <1>3 DEF StoreDn, CallTypes, Goto, Labels
  <2>3. UNCHANGED <<config, search, draft, listing, history>>
    BY <1>3 DEF StoreDn
  <2> QED BY <2>1, <2>2, <2>3, Frames
<1>4. ASSUME NEW t \in Threads, StoreMs(t) PROVE TypeOK'
  <2>1. CacheTypes'
    BY <1>4 DEF StoreMs, CacheTypes, CallTypes
  <2>2. CallTypes'
    BY <1>4 DEF StoreMs, CallTypes, Goto, Labels
  <2>3. UNCHANGED <<config, search, draft, listing, history>>
    BY <1>4 DEF StoreMs
  <2> QED BY <2>1, <2>2, <2>3, Frames
<1>5. ASSUME NEW t \in Threads, MarkInit(t) PROVE TypeOK'
  <2>1. CacheTypes'
    BY <1>5 DEF MarkInit, CacheTypes
  <2>2. CallTypes'
    BY <1>5 DEF MarkInit, CallTypes, Goto, Labels
  <2>3. UNCHANGED <<config, search, draft, listing, history>>
    BY <1>5 DEF MarkInit
  <2> QED BY <2>1, <2>2, <2>3, Frames
<1>6. ASSUME NEW t \in Threads, ExchangeStale(t) PROVE TypeOK'
  <2>1. CacheTypes'
    BY <1>6 DEF ExchangeStale, CacheTypes
  <2>2. CallTypes'
    BY <1>6 DEF ExchangeStale, CallTypes, Goto, Labels, Body
  <2>3. HistoryTypes'
    BY <1>6 DEF ExchangeStale, HistoryTypes, ConfigTypes, history
  <2>4. UNCHANGED <<config, search, draft, listing>>
    BY <1>6 DEF ExchangeStale
  <2> QED BY <2>1, <2>2, <2>3, <2>4, Frames
<1>7. ASSUME NEW t \in Threads, Clear(t) PROVE TypeOK'
  <2>1. CacheTypes'
    BY <1>7 DEF Clear, CacheTypes, Entry, NoEntry
  <2>2. CallTypes'
    BY <1>7 DEF Clear, CallTypes, Goto, Labels, Body
  <2>3. HistoryTypes'
    BY <1>7 DEF Clear, HistoryTypes
  <2>4. UNCHANGED <<config, search, draft, listing>>
    BY <1>7 DEF Clear
  <2> QED BY <2>1, <2>2, <2>3, <2>4, Frames
<1>8. ASSUME NEW t \in Threads, TryGet(t) PROVE TypeOK'
  <2>0. feature[t] \in Features
    BY <1>8 DEF SearchOK, LookupLabels, TryGet
  <2>1. CallTypes'
    BY <1>8 DEF TryGet, CallTypes, Goto, Labels
  <2>2. DraftTypes'
    BY <1>8, <2>0 DEF TryGet, DraftTypes, CacheTypes
  <2>3. UNCHANGED <<config, shared, search, listing, history>>
    BY <1>8 DEF TryGet
  <2> QED BY <2>1, <2>2, <2>3, Frames
<1>9. ASSUME NEW t \in Threads, OpenScan(t) PROVE TypeOK'
  <2>1. CallTypes'
    BY <1>9 DEF OpenScan, CallTypes, Goto, Labels
  <2>2. SearchTypes'
    BY <1>9 DEF OpenScan, SearchTypes, CacheTypes
  <2>3. UNCHANGED <<config, shared, draft, listing, history>>
    BY <1>9 DEF OpenScan
  <2> QED BY <2>1, <2>2, <2>3, Frames
<1>10. ASSUME NEW t \in Threads, ScanMs(t) PROVE TypeOK'
  <2>1. SearchTypes'
    BY <1>10 DEF ScanMs, SearchTypes
  <2>2. UNCHANGED <<config, shared, pc, job, phase, held, feature, draft, listing, history>>
    BY <1>10 DEF ScanMs
  <2> QED BY <2>1, <2>2, Frames
<1>11. ASSUME NEW t \in Threads, EndScan(t) PROVE TypeOK'
  <2>1. CallTypes'
    BY <1>11 DEF EndScan, CallTypes, Goto, Labels
  <2>2. UNCHANGED <<config, shared, search, draft, listing, history>>
    BY <1>11 DEF EndScan
  <2> QED BY <2>1, <2>2, Frames
<1>12. ASSUME NEW t \in Threads, ParseMs(t) PROVE TypeOK'
  <2>0. IdAt(sec[t], found[t]) \in Features \cup {NoName} /\ Live(sec[t]) \in Version
    BY <1>12, IdType, LiveVersion DEF SearchOK, SearchLabels, ParseMs, ConfigTypes, Latest
  <2>1. CallTypes'
    BY <1>12 DEF ParseMs, CallTypes, Goto, Labels, Parsed
  <2>2. DraftTypes'
    BY <1>12, <2>0 DEF ParseMs, DraftTypes, Parsed, Entry
  <2>3. UNCHANGED <<config, shared, search, listing, history>>
    BY <1>12 DEF ParseMs, Parsed
  <2> QED BY <2>1, <2>2, <2>3, Frames
<1>13. ASSUME NEW t \in Threads, FindDn(t) PROVE TypeOK'
  <2>0. feature[t] \in Features /\ Least(sec[t], dnVer) \in Version
    BY <1>13 DEF SearchOK, LookupLabels, FindDn, SearchTypes, CacheTypes, Least
  <2>1. CallTypes'
    BY <1>13 DEF FindDn, CallTypes, Goto, Labels, Parsed
  <2>2. DraftTypes'
    BY <1>13, <2>0 DEF FindDn, DraftTypes, Parsed, Entry
  <2>3. UNCHANGED <<config, shared, search, listing, history>>
    BY <1>13 DEF FindDn, Parsed
  <2> QED BY <2>1, <2>2, <2>3, Frames
<1>14. ASSUME NEW t \in Threads, ParseDn(t) PROVE TypeOK'
  <2>0. feature[t] \in Features /\ Latest \in Version
    BY <1>14 DEF SearchOK, LookupLabels, ParseDn, ConfigTypes, Latest
  <2>1. CallTypes'
    BY <1>14 DEF ParseDn, CallTypes, Goto, Labels, Parsed
  <2>2. DraftTypes'
    BY <1>14, <2>0 DEF ParseDn, DraftTypes, Parsed, Entry
  <2>3. UNCHANGED <<config, shared, search, listing, history>>
    BY <1>14 DEF ParseDn, Parsed
  <2> QED BY <2>1, <2>2, <2>3, Frames
<1>15. ASSUME NEW t \in Threads, TryAdd(t) PROVE TypeOK'
  <2>0. feature[t] \in Features /\ draft[t].schema # "error"
    BY <1>15 DEF SearchOK, LookupLabels, TryAdd
  <2>1. CacheTypes'
    BY <1>15, <2>0 DEF TryAdd, CacheTypes, DraftTypes
  <2>2. CallTypes'
    BY <1>15 DEF TryAdd, CallTypes, Goto, Labels
  <2>3. DraftTypes'
    BY <1>15, <2>0 DEF TryAdd, DraftTypes, CacheTypes
  <2>4. UNCHANGED <<config, search, listing, history>>
    BY <1>15 DEF TryAdd
  <2> QED BY <2>1, <2>2, <2>3, <2>4, Frames
<1>16. ASSUME NEW t \in Threads, ReturnGet(t) PROVE TypeOK'
  <2>1. CallTypes'
    BY <1>16 DEF ReturnGet, CallTypes, Goto, Labels, Leave
  <2>2. SearchTypes'
    BY <1>16 DEF ReturnGet, SearchTypes, Leave
  <2>3. DraftTypes'
    BY <1>16 DEF ReturnGet, DraftTypes, Leave, Entry, NoEntry
  <2>4. ListTypes'
    BY <1>16 DEF ReturnGet, ListTypes, Leave
  <2>5. UNCHANGED <<config, shared, history>>
    BY <1>16 DEF ReturnGet
  <2> QED BY <2>1, <2>2, <2>3, <2>4, <2>5, Frames
<1>17. ASSUME NEW t \in Threads, OpenMs(t) PROVE TypeOK'
  <2>1. CallTypes'
    BY <1>17 DEF OpenMs, CallTypes, Goto, Labels
  <2>2. ListTypes'
    BY <1>17 DEF OpenMs, ListTypes, CacheTypes
  <2>3. UNCHANGED <<config, shared, search, draft, history>>
    BY <1>17 DEF OpenMs
  <2> QED BY <2>1, <2>2, <2>3, Frames
<1>18. ASSUME NEW t \in Threads, NextMs(t) PROVE TypeOK'
  <2>0. IdAt(list[t], next[t]) \in Features \cup {NoName}
    BY <1>18, IdType DEF SearchOK, NextMs
  <2>1. CallTypes'
    BY <1>18, <2>0 DEF NextMs, CallTypes, Goto, Labels
  <2>2. ListTypes'
    BY <1>18 DEF NextMs, ListTypes
  <2>3. UNCHANGED <<config, shared, search, draft, history>>
    BY <1>18 DEF NextMs
  <2> QED BY <2>1, <2>2, <2>3, Frames
<1>19. ASSUME NEW t \in Threads, OpenDn(t) PROVE TypeOK'
  <2>0. configs[dnVer].dn \in SUBSET Features
    BY <1>19, Content DEF OpenDn, InitOrder, InitLabels, VersionsExist
  <2>1. CallTypes'
    BY <1>19 DEF OpenDn, CallTypes, Goto, Labels
  <2>2. ListTypes'
    BY <1>19, <2>0 DEF OpenDn, ListTypes
  <2>3. UNCHANGED <<config, shared, search, draft, history>>
    BY <1>19 DEF OpenDn
  <2> QED BY <2>1, <2>2, <2>3, Frames
<1>20. ASSUME NEW t \in Threads, NextDn(t) PROVE TypeOK'
  <2>1. CallTypes'
    BY <1>20 DEF NextDn, CallTypes, ListTypes, Goto, Labels
  <2>2. ListTypes'
    BY <1>20 DEF NextDn, ListTypes
  <2>3. UNCHANGED <<config, shared, search, draft, history>>
    BY <1>20 DEF NextDn
  <2> QED BY <2>1, <2>2, <2>3, Frames
<1>21. ASSUME NEW t \in Threads, Yield(t) PROVE TypeOK'
  <2>0. draft[t].name \in Features \cup {NoName}
    BY <1>21 DEF DraftTypes, Entry
  <2>1. CallTypes'
    BY <1>21 DEF Yield, CallTypes, Goto, Labels
  <2>2. ListTypes'
    BY <1>21, <2>0 DEF Yield, ListTypes
  <2>3. UNCHANGED <<config, shared, search, draft, history>>
    BY <1>21 DEF Yield
  <2> QED BY <2>1, <2>2, <2>3, Frames
<1>22. ASSUME NEW t \in Threads, FailAll(t) PROVE TypeOK'
  <2>1. CallTypes'
    BY <1>22 DEF FailAll, CallTypes, Goto, Labels, Leave
  <2>2. SearchTypes'
    BY <1>22 DEF FailAll, SearchTypes, Leave
  <2>3. DraftTypes'
    BY <1>22 DEF FailAll, DraftTypes, Leave, Entry, NoEntry
  <2>4. ListTypes'
    BY <1>22 DEF FailAll, ListTypes, Leave
  <2>5. UNCHANGED <<config, shared, history>>
    BY <1>22 DEF FailAll
  <2> QED BY <2>1, <2>2, <2>3, <2>4, <2>5, Frames
<1>23. ASSUME NEW t \in Threads, EndAll(t) PROVE TypeOK'
  <2>1. CallTypes'
    BY <1>23 DEF EndAll, CallTypes, Goto, Labels, Leave
  <2>2. SearchTypes'
    BY <1>23 DEF EndAll, SearchTypes, Leave
  <2>3. DraftTypes'
    BY <1>23 DEF EndAll, DraftTypes, Leave, Entry, NoEntry
  <2>4. ListTypes'
    BY <1>23 DEF EndAll, ListTypes, Leave
  <2>5. UNCHANGED <<config, shared, history>>
    BY <1>23 DEF EndAll
  <2> QED BY <2>1, <2>2, <2>3, <2>4, <2>5, Frames
<1>24. CASE Load
  <2>1. ConfigTypes'
    BY <1>24 DEF Load, ConfigTypes, Latest, config
  <2>2. UNCHANGED <<shared, pc, job, phase, held, feature, search, draft, listing, history>>
    BY <1>24 DEF Load
  <2> QED BY <2>1, <2>2, Frames
<1>25. CASE RaiseChanged
  <2>1. ConfigTypes' /\ CacheTypes'
    BY <1>25 DEF RaiseChanged, ConfigTypes, CacheTypes, Latest
  <2>2. UNCHANGED <<pc, job, phase, held, feature, search, draft, listing, history>>
    BY <1>25 DEF RaiseChanged
  <2> QED BY <2>1, <2>2, Frames
<1>26. ASSUME NEW t \in Threads, NEW f \in Features, StartGet(t, f) PROVE TypeOK'
  <2>1. CallTypes'
    BY <1>26 DEF StartGet, Enter, Goto, CallTypes, Labels
  <2>2. HistoryTypes'
    BY <1>26 DEF StartGet, Enter, HistoryTypes
  <2>3. UNCHANGED <<config, shared, search, draft, listing>>
    BY <1>26 DEF StartGet, Enter, listing
  <2> QED BY <2>1, <2>2, <2>3, Frames
<1>27. ASSUME NEW t \in Threads, StartAll(t) PROVE TypeOK'
  <2>1. CallTypes'
    BY <1>27 DEF StartAll, Enter, Goto, CallTypes, Labels
  <2>2. HistoryTypes'
    BY <1>27 DEF StartAll, Enter, HistoryTypes
  <2>3. ListTypes'
    BY <1>27 DEF StartAll, Enter, ListTypes, ConfigTypes, Latest
  <2>4. UNCHANGED <<config, shared, search, draft>>
    BY <1>27 DEF StartAll, Enter
  <2> QED BY <2>1, <2>2, <2>3, <2>4, Frames
<1>28. CASE UNCHANGED vars
  BY <1>28, Frames DEF vars
<1> QED
  BY <1>1, <1>2, <1>3, <1>4, <1>5, <1>6, <1>7, <1>8, <1>9, <1>10, <1>11, <1>12, <1>13, <1>14, <1>15, <1>16, <1>17, <1>18, <1>19, <1>20, <1>21, <1>22, <1>23, <1>24, <1>25, <1>26, <1>27, <1>28 DEF Next, Step

\* Section lists and notifications only ever name contents that exist.
LEMMA VersionStep ==
  ASSUME IInv, [Next]_vars
  PROVE  VersionsExist'
<1> USE DEF IInv, TypeOK, VersionsExist, Latest
<1> DEFINE Same == UNCHANGED <<config, dnVer, msVer, held, history>>
<1>1. Same => VersionsExist'
  BY DEF config, history
<1>2. ASSUME NEW t \in Threads,
             \/ EnsureInit(t) \/ MarkInit(t) \/ TryGet(t) \/ OpenScan(t)
             \/ ScanMs(t) \/ EndScan(t) \/ ParseMs(t) \/ FindDn(t)
             \/ ParseDn(t) \/ TryAdd(t) \/ OpenMs(t) \/ NextMs(t)
             \/ OpenDn(t) \/ NextDn(t) \/ Yield(t)
      PROVE  Same
  BY <1>2 DEF EnsureInit, MarkInit, TryGet, OpenScan, ScanMs, EndScan, ParseMs,
              FindDn, ParseDn, TryAdd, OpenMs, NextMs, OpenDn, NextDn, Yield,
              shared, Parsed
<1>3. ASSUME NEW t \in Threads, ReturnGet(t) \/ FailAll(t) \/ EndAll(t)
      PROVE  VersionsExist'
  BY <1>3 DEF ReturnGet, FailAll, EndAll, Leave, shared, config, history,
              CallTypes, ConfigTypes
<1>4. ASSUME NEW t \in Threads, ReadSections(t)
      PROVE  VersionsExist'
  BY <1>4 DEF ReadSections, shared, config, history, CallTypes, ConfigTypes
<1>5. ASSUME NEW t \in Threads, StoreDn(t) \/ StoreMs(t)
      PROVE  VersionsExist'
  BY <1>5 DEF StoreDn, StoreMs, config, history
<1>6. ASSUME NEW t \in Threads, ExchangeStale(t)
      PROVE  VersionsExist'
  BY <1>6 DEF ExchangeStale, config
<1>7. ASSUME NEW t \in Threads, Clear(t)
      PROVE  VersionsExist'
  BY <1>7 DEF Clear, config
<1>8. ASSUME NEW t \in Threads,
             (\E f \in Features : StartGet(t, f)) \/ StartAll(t)
      PROVE  VersionsExist'
  BY <1>8 DEF StartGet, StartAll, Enter, shared, config
<1>9. CASE Load
  <2>1. Latest' = Latest + 1
    BY <1>9 DEF Load, ConfigTypes
  <2> QED BY <1>9, <2>1 DEF Load, shared, history, ConfigTypes
<1>10. CASE RaiseChanged
  BY <1>10 DEF RaiseChanged, history, ConfigTypes
<1>11. CASE UNCHANGED vars
  BY <1>11, <1>1 DEF vars, shared
<1> QED
  BY <1>1, <1>2, <1>3, <1>4, <1>5, <1>6, <1>7, <1>8, <1>9, <1>10, <1>11
     DEF Next, Step

\* The fields are written before _initialized, and never become null again.
LEMMA InitOrderStep ==
  ASSUME IInv, [Next]_vars
  PROVE  InitOrder'
<1> USE DEF IInv, TypeOK, InitOrder, InitLabels
<1> DEFINE Same == UNCHANGED <<initialized, dnVer, msVer, held, phase, alone, floor>>
<1>1. ASSUME NEW t \in Threads,
             \/ TryGet(t) \/ OpenScan(t) \/ EndScan(t) \/ ParseMs(t)
             \/ FindDn(t) \/ ParseDn(t) \/ TryAdd(t) \/ OpenMs(t)
             \/ NextMs(t) \/ OpenDn(t) \/ NextDn(t) \/ Yield(t) \/ ScanMs(t)
      PROVE  InitOrder'
  <2>1. Same
    BY <1>1 DEF TryGet, OpenScan, EndScan, ParseMs, FindDn, ParseDn, TryAdd,
                OpenMs, NextMs, OpenDn, NextDn, Yield, ScanMs, shared, history
  <2>2. pc[t] \notin InitLabels
    BY <1>1 DEF TryGet, OpenScan, EndScan, ParseMs, FindDn, ParseDn, TryAdd,
                OpenMs, NextMs, OpenDn, NextDn, Yield, ScanMs
  <2>3. /\ pc'[t] \notin InitLabels
        /\ \A u \in Threads \ {t} : pc'[u] = pc[u]
    BY <1>1, <2>2 DEF TryGet, OpenScan, EndScan, ParseMs, FindDn, ParseDn, TryAdd,
                OpenMs, NextMs, OpenDn, NextDn, Yield, ScanMs, Parsed, Goto,
                CallTypes
  <2> QED BY <2>1, <2>2, <2>3
<1>2. ASSUME NEW t \in Threads, ReturnGet(t) \/ FailAll(t) \/ EndAll(t)
      PROVE  InitOrder'
  BY <1>2 DEF ReturnGet, FailAll, EndAll, Leave, Goto, shared, history,
              CallTypes
<1>3. ASSUME NEW t \in Threads, EnsureInit(t)
      PROVE  InitOrder'
  BY <1>3 DEF EnsureInit, Goto, shared, history, CallTypes
<1>4. ASSUME NEW t \in Threads, ReadSections(t)
      PROVE  InitOrder'
  BY <1>4 DEF ReadSections, Goto, shared, history, CallTypes, ConfigTypes, Latest
<1>5. ASSUME NEW t \in Threads, StoreDn(t)
      PROVE  InitOrder'
  BY <1>5 DEF StoreDn, Goto, history, CallTypes, CacheTypes
<1>6. ASSUME NEW t \in Threads, StoreMs(t)
      PROVE  InitOrder'
  BY <1>6 DEF StoreMs, Goto, history, CallTypes, CacheTypes
<1>7. ASSUME NEW t \in Threads, MarkInit(t)
      PROVE  InitOrder'
  BY <1>7 DEF MarkInit, Goto, history, CallTypes
<1>8. ASSUME NEW t \in Threads, ExchangeStale(t)
      PROVE  InitOrder'
  BY <1>8 DEF ExchangeStale, Goto, Body, CallTypes
<1>9. ASSUME NEW t \in Threads, Clear(t)
      PROVE  InitOrder'
  BY <1>9 DEF Clear, Goto, Body, CallTypes
<1>10. ASSUME NEW t \in Threads,
              (\E f \in Features : StartGet(t, f)) \/ StartAll(t)
      PROVE  InitOrder'
  BY <1>10 DEF StartGet, StartAll, Enter, Goto, shared, CallTypes
<1>11. CASE Load \/ RaiseChanged \/ UNCHANGED vars
  BY <1>11 DEF Load, RaiseChanged, vars, shared, history
<1> QED
  BY <1>1, <1>2, <1>3, <1>4, <1>5, <1>6, <1>7, <1>8, <1>9, <1>10, <1>11
     DEF Next, Step

\* A search and a listing stay within the contents that exist.
LEMMA SearchStep ==
  ASSUME IInv, [Next]_vars
  PROVE  SearchOK'
<1> USE DEF IInv, TypeOK, SearchOK, LookupLabels, SearchLabels, Latest
<1>1. ASSUME NEW t \in Threads,
             \/ EnsureInit(t) \/ ReadSections(t) \/ StoreDn(t) \/ StoreMs(t)
             \/ MarkInit(t) \/ ExchangeStale(t) \/ Clear(t)
      PROVE  SearchOK'
  <2>1. UNCHANGED <<config, job, feature, search, draft, listing>>
    BY <1>1 DEF EnsureInit, ReadSections, StoreDn, StoreMs, MarkInit,
                ExchangeStale, Clear
  <2>2. /\ pc[t] # "idle"
        /\ pc'[t] \notin LookupLabels \/ (pc'[t] = "tryGet" /\ job[t] = "get")
        /\ pc'[t] \notin {"nextMs", "nextDn"}
        /\ \A u \in Threads \ {t} : pc'[u] = pc[u]
    BY <1>1 DEF EnsureInit, ReadSections, StoreDn, StoreMs, MarkInit,
                ExchangeStale, Clear, Goto, Body, CallTypes
  <2> QED BY <2>1, <2>2 DEF config, search, listing
<1>2. ASSUME NEW t \in Threads, ReturnGet(t) \/ FailAll(t) \/ EndAll(t)
      PROVE  SearchOK'
  <2>1. Leave(t) /\ UNCHANGED configs
    BY <1>2 DEF ReturnGet, FailAll, EndAll, config
  <2>2. pc'[t] = "idle"
    BY <2>1 DEF Leave, Goto, CallTypes
  <2>3. \A u \in Threads \ {t} :
          /\ pc'[u] = pc[u] /\ job'[u] = job[u] /\ feature'[u] = feature[u]
          /\ sec'[u] = sec[u] /\ list'[u] = list[u] /\ draft'[u] = draft[u]
    BY <2>1 DEF Leave, Goto, CallTypes, SearchTypes, ListTypes, DraftTypes
  <2> QED BY <2>1, <2>2, <2>3
<1>3. ASSUME NEW t \in Threads, TryGet(t)
      PROVE  SearchOK'
  <2>1. UNCHANGED <<config, job, feature, search, listing>>
    BY <1>3 DEF TryGet
  <2>2. pc'[t] \in {"openScan", "return"}
    BY <1>3 DEF TryGet, Goto, CallTypes
  <2>3. \A u \in Threads \ {t} : pc'[u] = pc[u] /\ draft'[u] = draft[u]
    BY <1>3 DEF TryGet, Goto, CallTypes, DraftTypes
  <2>4. pc[t] = "tryGet"
    BY <1>3 DEF TryGet
  <2> QED BY <2>1, <2>2, <2>3, <2>4 DEF config, search, listing
<1>4. ASSUME NEW t \in Threads, OpenScan(t)
      PROVE  SearchOK'
  <2>1. msVer \in 1..Latest
    BY <1>4 DEF OpenScan, InitOrder, InitLabels, VersionsExist
  <2> QED BY <1>4, <2>1 DEF OpenScan, Goto, config, listing, CallTypes, SearchTypes
<1>5. ASSUME NEW t \in Threads, ScanMs(t) \/ EndScan(t)
      PROVE  SearchOK'
  BY <1>5 DEF ScanMs, EndScan, Goto, config, search, listing, CallTypes
<1>6. ASSUME NEW t \in Threads, ParseMs(t) \/ FindDn(t) \/ ParseDn(t)
      PROVE  SearchOK'
  BY <1>6 DEF ParseMs, FindDn, ParseDn, Parsed, Goto, config, search, listing,
              CallTypes, DraftTypes
<1>7. ASSUME NEW t \in Threads, TryAdd(t)
      PROVE  SearchOK'
  <2>1. UNCHANGED <<config, job, feature, search, listing>>
    BY <1>7 DEF TryAdd
  <2>2. pc[t] = "tryAdd" /\ pc'[t] = "return"
    BY <1>7 DEF TryAdd, Goto, CallTypes
  <2>3. \A u \in Threads \ {t} : pc'[u] = pc[u] /\ draft'[u] = draft[u]
    BY <1>7 DEF TryAdd, Goto, CallTypes, DraftTypes
  <2> QED BY <2>1, <2>2, <2>3 DEF config, search, listing
<1>8. ASSUME NEW t \in Threads, OpenMs(t)
      PROVE  SearchOK'
  <2>1. msVer \in 1..Latest
    BY <1>8 DEF OpenMs, InitOrder, InitLabels, VersionsExist
  <2> QED BY <1>8, <2>1 DEF OpenMs, Goto, config, search, CallTypes, ListTypes
<1>9. ASSUME NEW t \in Threads, NextMs(t)
      PROVE  SearchOK'
  <2>1. IdAt(list[t], next[t]) \in Features \cup {NoName}
    BY <1>9, IdType DEF NextMs
  <2> QED BY <1>9, <2>1 DEF NextMs, Goto, config, search, CallTypes
<1>10. ASSUME NEW t \in Threads, OpenDn(t)
      PROVE  SearchOK'
  BY <1>10 DEF OpenDn, Goto, config, search, CallTypes
<1>11. ASSUME NEW t \in Threads, NextDn(t)
      PROVE  SearchOK'
  <2>1. PICK f \in dnLeft[t] : feature' = [feature EXCEPT ![t] = f]
    BY <1>11 DEF NextDn
  <2>2. f \in Features
    BY <2>1 DEF ListTypes
  <2>3. feature'[t] \in Features
    BY <2>1, <2>2 DEF CallTypes
  <2>4. \A u \in Threads \ {t} : feature'[u] = feature[u]
    BY <2>1 DEF CallTypes
  <2>5. job[t] # "ms"
    BY <1>11 DEF NextDn
  <2> QED BY <1>11, <2>3, <2>4, <2>5 DEF NextDn, Goto, config, search, CallTypes
<1>12. ASSUME NEW t \in Threads, Yield(t)
      PROVE  SearchOK'
  BY <1>12 DEF Yield, Goto, config, search, CallTypes
<1>13. ASSUME NEW t \in Threads,
              (\E f \in Features : StartGet(t, f)) \/ StartAll(t)
      PROVE  SearchOK'
  BY <1>13 DEF StartGet, StartAll, Enter, Goto, config, search, CallTypes
<1>14. CASE Load
  <2>1. Latest' = Latest + 1
    BY <1>14 DEF Load, ConfigTypes
  <2> QED BY <1>14, <2>1 DEF Load, search, listing, ConfigTypes
<1>15. CASE RaiseChanged \/ UNCHANGED vars
  BY <1>15 DEF RaiseChanged, vars, config, search, listing
<1> QED
  BY <1>1, <1>2, <1>3, <1>4, <1>5, <1>6, <1>7, <1>8, <1>9, <1>10, <1>11,
     <1>12, <1>13, <1>14, <1>15 DEF Next, Step

\* The invariant holds before the first call of the provider.
THEOREM InitInv == Init => IInv
<1> SUFFICES ASSUME Init PROVE IInv
  OBVIOUS
<1> USE NameAssumption, BoundAssumption DEF Init, Version
<1>1. ConfigTypes /\ Latest = 1
  BY DEF ConfigTypes, Latest
<1>2. CacheTypes
  <2>1. NoEntry \in {e \in Entry : e.schema # "error"}
    BY DEF NoEntry, Entry
  <2>2. definitions \in [Features -> {e \in Entry : e.schema # "error"}]
    BY <2>1
  <2>3. stale \in BOOLEAN /\ initialized \in BOOLEAN
    OBVIOUS
  <2>4. dnVer \in Version /\ msVer \in Version
    OBVIOUS
  <2> QED BY <2>2, <2>3, <2>4, Zenon DEF CacheTypes
<1>3. CallTypes
  BY DEF CallTypes, Labels
<1>4. SearchTypes /\ ListTypes /\ HistoryTypes
  BY DEF SearchTypes, ListTypes, HistoryTypes
<1>5. DraftTypes
  BY DEF DraftTypes, Entry, NoEntry
<1>6. VersionsExist
  BY <1>1 DEF VersionsExist
<1>7. InitOrder
  BY DEF InitOrder, InitLabels
<1>8. SearchOK
  BY DEF SearchOK, LookupLabels, SearchLabels
<1> QED BY <1>1, <1>2, <1>3, <1>4, <1>5, <1>6, <1>7, <1>8 DEF IInv, TypeOK

\* IInv is an invariant of the provider for any number of concurrent calls.
THEOREM Inductive == Spec => []IInv
<1>1. IInv /\ [Next]_vars => IInv'
  BY TypeStep, VersionStep, InitOrderStep, SearchStep DEF IInv
<1> QED BY InitInv, <1>1, PTL DEF Spec

\* Every variable keeps its type, and a definition that fails to parse is never
\* added to _definitions (GetOrAdd with a factory that throws).
THEOREM Types == Spec => []TypeOK
BY Inductive, PTL DEF IInv

\* However many threads run EnsureInit at once, none that is past it finds a
\* section field null.
THEOREM SectionsAreReady == Spec => []SectionsReady
<1>1. IInv => SectionsReady
  BY DEF IInv, InitOrder, SectionsReady
<1> QED BY Inductive, <1>1, PTL

-----------------------------------------------------------------------------
(* QuietRefreshHolds: what a refresh that ran alone threw away stays away. *)

\* Everything a later answer can be made of is at least as recent as floor.
NothingOlder ==
  /\ \A f \in Features :
       definitions[f] # NoEntry => definitions[f].version >= floor
  /\ initialized => dnVer >= floor /\ msVer >= floor
  /\ \A t \in Threads :
       /\ Answering(t) => draft[t].version >= floor
       /\ pc[t] \in {"storeDn", "storeMs"} => held[t] >= floor
       /\ pc[t] \in SearchLabels => sec[t] >= floor

\* While alone is set, one thread refreshes and every other is idle, and what
\* it has stored so far is at least as recent as the reload it took up.
RefreshAlone(t) ==
  /\ OthersIdle(t)
  /\ Refreshing(t)
  /\ pc[t] \in {"storeDn", "storeMs"} => held[t] >= alone
  /\ pc[t] \in {"readMs", "storeMs", "clear"} => dnVer >= alone
  /\ pc[t] = "clear" => msVer >= alone

\* The invariant behind QuietRefreshHolds.
QInv ==
  /\ NothingOlder
  /\ alone # 0 => \E t \in Threads : RefreshAlone(t)

\* No step brings in anything older than floor.
LEMMA NothingOlderStep ==
  ASSUME IInv, QInv, [Next]_vars
  PROVE  NothingOlder'
<1> USE DEF IInv, TypeOK, QInv, NothingOlder, Version
<1>1. ASSUME NEW t \in Threads,
             \/ EnsureInit(t) \/ EndScan(t) \/ ScanMs(t)
             \/ OpenMs(t) \/ NextMs(t) \/ OpenDn(t) \/ NextDn(t) \/ Yield(t)
      PROVE  NothingOlder'
  <2>1. UNCHANGED <<definitions, initialized, dnVer, msVer, floor, draft, held, sec>>
    BY <1>1 DEF EnsureInit, EndScan, ScanMs, OpenMs, NextMs, OpenDn, NextDn,
                Yield, shared, history, search
  <2>2. \A u \in Threads :
          /\ pc'[u] \in {"storeDn", "storeMs"} => pc[u] \in {"storeDn", "storeMs"}
          /\ pc'[u] \in SearchLabels => pc[u] \in SearchLabels
          /\ pc'[u] \in {"tryAdd", "return"} => pc[u] \in {"tryAdd", "return"}
    BY <1>1 DEF EnsureInit, EndScan, ScanMs, OpenMs, NextMs, OpenDn, NextDn,
                Yield, Goto, CallTypes, SearchLabels
  <2> QED BY <2>1, <2>2 DEF Answering
<1>2. ASSUME NEW t \in Threads, ReturnGet(t) \/ FailAll(t) \/ EndAll(t)
      PROVE  NothingOlder'
  <2>1. Leave(t) /\ UNCHANGED <<shared, history>>
    BY <1>2 DEF ReturnGet, FailAll, EndAll
  <2>2. pc'[t] = "idle"
    BY <2>1 DEF Leave, Goto, CallTypes
  <2>3. \A u \in Threads \ {t} :
          /\ pc'[u] = pc[u] /\ draft'[u] = draft[u]
          /\ held'[u] = held[u] /\ sec'[u] = sec[u]
    BY <2>1 DEF Leave, Goto, CallTypes, SearchTypes, DraftTypes
  <2> QED BY <2>1, <2>2, <2>3 DEF shared, history, Answering, SearchLabels
<1>3. ASSUME NEW t \in Threads, ReadSections(t)
      PROVE  NothingOlder'
  <2>1. Latest >= floor
    BY DEF VersionsExist, ConfigTypes, Latest
  <2>2. UNCHANGED <<shared, search, draft, floor>> /\ held' = [held EXCEPT ![t] = Latest]
    BY <1>3 DEF ReadSections, history
  <2>3. pc'[t] \in {"storeDn", "storeMs"} /\ \A u \in Threads \ {t} : pc'[u] = pc[u]
    BY <1>3 DEF ReadSections, Goto, CallTypes
  <2> QED BY <2>1, <2>2, <2>3 DEF shared, search, Answering, SearchLabels, CallTypes
<1>4. ASSUME NEW t \in Threads, StoreDn(t) \/ StoreMs(t)
      PROVE  NothingOlder'
  <2>1. UNCHANGED <<definitions, initialized, floor, draft, held, sec>>
    BY <1>4 DEF StoreDn, StoreMs, history, search
  <2>2. \/ dnVer' = held[t] /\ msVer' = msVer
        \/ msVer' = held[t] /\ dnVer' = dnVer
    BY <1>4 DEF StoreDn, StoreMs
  <2>3. held[t] >= floor
    BY <1>4 DEF StoreDn, StoreMs
  <2>4. /\ pc'[t] \in {"readMs", "markInit", "clear"}
        /\ \A u \in Threads \ {t} : pc'[u] = pc[u]
    BY <1>4 DEF StoreDn, StoreMs, Goto, CallTypes
  <2> QED BY <2>1, <2>2, <2>3, <2>4 DEF Answering, SearchLabels
<1>5. ASSUME NEW t \in Threads, MarkInit(t)
      PROVE  NothingOlder'
  <2>1. UNCHANGED <<definitions, dnVer, msVer, floor, draft, held, sec>>
    BY <1>5 DEF MarkInit, history, search
  <2>2. dnVer >= floor /\ msVer >= floor
    BY <1>5 DEF MarkInit, InitOrder, VersionsExist
  <2>3. pc'[t] = "exchange" /\ \A u \in Threads \ {t} : pc'[u] = pc[u]
    BY <1>5 DEF MarkInit, Goto, CallTypes
  <2> QED BY <2>1, <2>2, <2>3 DEF Answering, SearchLabels
<1>6. ASSUME NEW t \in Threads, ExchangeStale(t)
      PROVE  NothingOlder'
  <2>1. UNCHANGED <<definitions, initialized, dnVer, msVer, floor, draft, held, sec>>
    BY <1>6 DEF ExchangeStale, search
  <2>2. /\ pc'[t] \in {"readDn", "tryGet", "openMs"}
        /\ \A u \in Threads \ {t} : pc'[u] = pc[u]
    BY <1>6 DEF ExchangeStale, Goto, Body, CallTypes
  <2> QED BY <2>1, <2>2 DEF Answering, SearchLabels
<1>7. ASSUME NEW t \in Threads, Clear(t)
      PROVE  NothingOlder'
  <2>1. UNCHANGED <<initialized, dnVer, msVer, draft, held, sec>>
    BY <1>7 DEF Clear, search
  <2>2. \A f \in Features : definitions'[f] = NoEntry
    BY <1>7 DEF Clear
  <2>3. /\ pc'[t] \in {"tryGet", "openMs"}
        /\ \A u \in Threads \ {t} : pc'[u] = pc[u]
    BY <1>7 DEF Clear, Goto, Body, CallTypes
  <2>4. CASE alone = 0
    <3>1. floor' = floor
      BY <1>7, <2>4 DEF Clear
    <3> QED BY <2>1, <2>2, <2>3, <3>1 DEF Answering, SearchLabels, NoEntry
  <2>5. CASE alone # 0
    <3>1. floor' = alone
      BY <1>7, <2>5 DEF Clear
    <3>2. pc[t] = "clear"
      BY <1>7 DEF Clear
    <3>3. RefreshAlone(t)
      BY <2>5, <3>2 DEF RefreshAlone, OthersIdle
    <3>4. \A u \in Threads \ {t} : pc'[u] = "idle"
      BY <2>3, <3>3 DEF RefreshAlone, OthersIdle
    <3>5. dnVer >= alone /\ msVer >= alone
      BY <3>2, <3>3 DEF RefreshAlone
    <3> QED BY <2>1, <2>2, <2>3, <3>1, <3>4, <3>5 DEF Answering, SearchLabels, NoEntry
  <2> QED BY <2>4, <2>5
<1>8. ASSUME NEW t \in Threads, TryGet(t)
      PROVE  NothingOlder'
  <2>1. UNCHANGED <<shared, held, search, floor>> /\ pc[t] = "tryGet"
    BY <1>8 DEF TryGet, history
  <2>2. \A u \in Threads \ {t} : pc'[u] = pc[u] /\ draft'[u] = draft[u]
    BY <1>8 DEF TryGet, Goto, CallTypes, DraftTypes
  <2>3. feature[t] \in Features
    BY <2>1 DEF SearchOK, LookupLabels
  <2>4. \/ pc'[t] = "openScan"
        \/ pc'[t] = "return" /\ draft'[t].version >= floor
    BY <1>8, <2>3 DEF TryGet, Goto, CallTypes, DraftTypes
  <2> QED BY <2>1, <2>2, <2>4 DEF shared, search, Answering, SearchLabels
<1>9. ASSUME NEW t \in Threads, OpenScan(t)
      PROVE  NothingOlder'
  <2>1. UNCHANGED <<shared, held, draft, floor>> /\ sec' = [sec EXCEPT ![t] = msVer]
    BY <1>9 DEF OpenScan, history
  <2>2. pc'[t] = "scan" /\ \A u \in Threads \ {t} : pc'[u] = pc[u]
    BY <1>9 DEF OpenScan, Goto, CallTypes
  <2>3. msVer >= floor
    BY <1>9 DEF OpenScan, InitOrder, InitLabels
  <2> QED BY <2>1, <2>2, <2>3 DEF shared, Answering, SearchLabels, SearchTypes
<1>10. ASSUME NEW t \in Threads, ParseMs(t) \/ FindDn(t) \/ ParseDn(t)
      PROVE  NothingOlder'
  <2>1. UNCHANGED <<shared, held, search, floor>>
    BY <1>10 DEF ParseMs, FindDn, ParseDn, history
  <2>2. \A u \in Threads \ {t} : pc'[u] = pc[u] /\ draft'[u] = draft[u]
    BY <1>10 DEF ParseMs, FindDn, ParseDn, Parsed, Goto, CallTypes, DraftTypes
  <2>3. pc'[t] \in {"parseDn", "return", "tryAdd"}
    BY <1>10 DEF ParseMs, FindDn, ParseDn, Parsed, Goto, CallTypes
  <2>4. Latest >= floor
    BY DEF VersionsExist, ConfigTypes, Latest
  <2>5. Answering(t)' => draft'[t].version >= floor
    <3>1. CASE ParseMs(t)
      <4>1. Live(sec[t]) >= floor
        BY <3>1, <2>4 DEF ParseMs, Live, SearchLabels
      <4> QED BY <3>1, <4>1 DEF ParseMs, Parsed, DraftTypes
    <3>2. CASE FindDn(t)
      <4>1. Least(sec[t], dnVer) >= floor
        BY <3>2 DEF FindDn, Least, SearchLabels, InitOrder, InitLabels
      <4>2. feature[t] \notin configs[dnVer].dn =>
              draft'[t].version = Least(sec[t], dnVer)
        BY <3>2 DEF FindDn, Parsed, DraftTypes
      <4>3. feature[t] \in configs[dnVer].dn => pc'[t] = "parseDn"
        BY <3>2 DEF FindDn, Goto, CallTypes
      <4> QED BY <4>1, <4>2, <4>3 DEF Answering
    <3>3. CASE ParseDn(t)
      BY <3>3, <2>4 DEF ParseDn, Parsed, DraftTypes
    <3> QED BY <1>10, <3>1, <3>2, <3>3
  <2> QED BY <2>1, <2>2, <2>3, <2>5 DEF shared, search, Answering, SearchLabels
<1>11. ASSUME NEW t \in Threads, TryAdd(t)
      PROVE  NothingOlder'
  <2>1. UNCHANGED <<initialized, dnVer, msVer, held, search, floor>> /\ pc[t] = "tryAdd"
    BY <1>11 DEF TryAdd, history
  <2>2. pc'[t] = "return" /\ \A u \in Threads \ {t} : pc'[u] = pc[u] /\ draft'[u] = draft[u]
    BY <1>11 DEF TryAdd, Goto, CallTypes, DraftTypes
  <2>3. feature[t] \in Features
    BY <2>1 DEF SearchOK, LookupLabels
  <2>4. draft[t].version >= floor
    BY <2>1 DEF Answering
  <2>5. draft'[t].version >= floor
    BY <1>11, <2>3, <2>4 DEF TryAdd, DraftTypes
  <2>6. \A f \in Features :
          definitions'[f] # NoEntry => definitions'[f].version >= floor
    BY <1>11, <2>3, <2>4 DEF TryAdd, CacheTypes
  <2> QED BY <2>1, <2>2, <2>5, <2>6 DEF search, Answering, SearchLabels
<1>12. ASSUME NEW t \in Threads,
              (\E f \in Features : StartGet(t, f)) \/ StartAll(t)
      PROVE  NothingOlder'
  <2>1. UNCHANGED <<shared, held, search, draft, floor>>
    BY <1>12 DEF StartGet, StartAll, Enter
  <2>2. pc'[t] = "init" /\ \A u \in Threads \ {t} : pc'[u] = pc[u]
    BY <1>12 DEF StartGet, StartAll, Enter, Goto, CallTypes
  <2> QED BY <2>1, <2>2 DEF shared, search, Answering, SearchLabels
<1>13. CASE Load \/ RaiseChanged \/ UNCHANGED vars
  BY <1>13 DEF Load, RaiseChanged, vars, shared, search, history, Answering
<1> QED
  BY <1>1, <1>2, <1>3, <1>4, <1>5, <1>6, <1>7, <1>8, <1>9, <1>10, <1>11,
     <1>12, <1>13 DEF Next, Step

\* alone is set only while one thread refreshes and the others are idle.
LEMMA AloneStep ==
  ASSUME IInv, QInv, [Next]_vars
  PROVE  (alone # 0 => \E t \in Threads : RefreshAlone(t))'
<1> USE DEF IInv, TypeOK, QInv
<1> SUFFICES ASSUME alone' # 0
             PROVE  \E t \in Threads : RefreshAlone(t)'
  OBVIOUS
<1>1. ASSUME NEW t \in Threads, Step(t), ~ExchangeStale(t)
      PROVE  RefreshAlone(t)'
  <2>1. alone' = alone /\ ~Clear(t)
    BY <1>1 DEF Step, EnsureInit, ReadSections, StoreDn, StoreMs, MarkInit,
                Clear, TryGet, OpenScan, ScanMs, EndScan, ParseMs, FindDn,
                ParseDn, TryAdd, ReturnGet, OpenMs, NextMs, OpenDn, NextDn,
                Yield, FailAll, EndAll, history
  <2>2. pc[t] # "idle"
    BY <1>1 DEF Step, EnsureInit, ReadSections, StoreDn, StoreMs, MarkInit,
                Clear, TryGet, OpenScan, ScanMs, EndScan, ParseMs, FindDn,
                ParseDn, TryAdd, ReturnGet, OpenMs, NextMs, OpenDn, NextDn,
                Yield, FailAll, EndAll
  <2>3. RefreshAlone(t)
    BY <2>1, <2>2 DEF RefreshAlone, OthersIdle, Refreshing
  <2>4. ReadSections(t) \/ StoreDn(t) \/ StoreMs(t)
    BY <1>1, <2>1, <2>3
       DEF RefreshAlone, Refreshing, Step, EnsureInit, MarkInit, TryGet,
           OpenScan, ScanMs, EndScan, ParseMs, FindDn, ParseDn, TryAdd,
           ReturnGet, OpenMs, NextMs, OpenDn, NextDn, Yield, FailAll, EndAll
  <2>5. UNCHANGED phase /\ \A u \in Threads \ {t} : pc'[u] = pc[u]
    BY <2>4 DEF ReadSections, StoreDn, StoreMs, Goto, CallTypes
  <2>6. OthersIdle(t)'
    BY <2>3, <2>5 DEF RefreshAlone, OthersIdle
  <2>7. CASE ReadSections(t)
    <3>1. Latest >= alone
      BY DEF VersionsExist, ConfigTypes, Latest
    <3>2. /\ UNCHANGED <<dnVer, msVer>> /\ held'[t] = Latest
          /\ \/ pc'[t] = "storeDn"
             \/ pc[t] = "readMs" /\ pc'[t] = "storeMs"
      BY <2>7 DEF ReadSections, Goto, CallTypes, shared
    <3> QED BY <2>1, <2>3, <2>5, <2>6, <3>1, <3>2 DEF RefreshAlone, Refreshing
  <2>8. CASE StoreDn(t)
    <3>1. dnVer' = held[t] /\ pc[t] = "storeDn" /\ pc'[t] = "readMs"
      BY <2>8 DEF StoreDn, Goto, CallTypes
    <3> QED BY <2>1, <2>3, <2>5, <2>6, <3>1 DEF RefreshAlone, Refreshing
  <2>9. CASE StoreMs(t)
    <3>1. /\ dnVer' = dnVer /\ msVer' = held[t]
          /\ pc[t] = "storeMs" /\ pc'[t] = "clear"
      BY <2>3, <2>9 DEF StoreMs, Goto, CallTypes, RefreshAlone, Refreshing
    <3> QED BY <2>1, <2>3, <2>5, <2>6, <3>1 DEF RefreshAlone, Refreshing
  <2> QED BY <2>4, <2>7, <2>8, <2>9
<1>2. ASSUME NEW t \in Threads, ExchangeStale(t)
      PROVE  RefreshAlone(t)'
  <2>1. pc[t] = "exchange" /\ \A u \in Threads \ {t} : pc'[u] = pc[u]
    BY <1>2 DEF ExchangeStale, Goto, CallTypes
  <2>2. CASE stale
    <3>1. OthersIdle(t)
      BY <1>2, <2>2 DEF ExchangeStale
    <3>2. pc'[t] = "readDn" /\ phase'[t] = "refresh"
      BY <1>2, <2>2 DEF ExchangeStale, Goto, CallTypes
    <3> QED BY <2>1, <3>1, <3>2 DEF RefreshAlone, OthersIdle, Refreshing
  <2>3. CASE ~stale
    <3>1. alone # 0
      BY <1>2, <2>3 DEF ExchangeStale
    <3>2. PICK u \in Threads : RefreshAlone(u)
      BY <3>1
    <3>3. u = t
      BY <2>1, <3>2 DEF RefreshAlone, OthersIdle
    <3> QED BY <2>1, <3>2, <3>3 DEF RefreshAlone, Refreshing
  <2> QED BY <2>2, <2>3
<1>3. ASSUME NEW t \in Threads,
             (\E f \in Features : StartGet(t, f)) \/ StartAll(t)
      PROVE  FALSE
  <2>1. OthersIdle(t) /\ alone # 0 /\ pc[t] = "idle"
    BY <1>3 DEF StartGet, StartAll, Enter
  <2>2. PICK u \in Threads : RefreshAlone(u)
    BY <2>1
  <2> QED BY <2>1, <2>2 DEF RefreshAlone, Refreshing, OthersIdle
<1>4. CASE Load \/ RaiseChanged \/ UNCHANGED vars
  <2>1. UNCHANGED <<alone, pc, phase, held, dnVer, msVer>>
    BY <1>4 DEF Load, RaiseChanged, vars, shared, history
  <2>2. PICK u \in Threads : RefreshAlone(u)
    BY <2>1
  <2>3. RefreshAlone(u)'
    BY <2>1, <2>2 DEF RefreshAlone, OthersIdle, Refreshing
  <2> QED BY <2>3
<1> QED
  BY <1>1, <1>2, <1>3, <1>4 DEF Next

\* Once a refresh has run while no other call was in progress, nothing older
\* than the reload it took up is ever cached, stored or returned again
\* (GetFeatureDefinitionAsync and GetAllFeatureDefinitionsAsync).
THEOREM QuietRefresh == Spec => []QuietRefreshHolds
<1>1. Init => QInv
  BY DEF Init, QInv, NothingOlder, Answering, SearchLabels
<1>2. IInv /\ QInv /\ [Next]_vars => QInv'
  BY NothingOlderStep, AloneStep DEF QInv
<1>3. QInv => QuietRefreshHolds
  BY DEF QInv, NothingOlder, QuietRefreshHolds
<1> QED BY Inductive, <1>1, <1>2, <1>3, PTL DEF Spec

-----------------------------------------------------------------------------
(* ReloadNotLost: a notification is lost only to an overlapped refresh.    *)

\* ReloadNotLost, and what alone says of the notification taken up.
NInv ==
  /\ ReloadNotLost
  /\ alone # 0 /\ ~stale => alone = raised

\* Nothing changes as long as whoever was refreshing still is.
LEMMA NotificationFrame ==
  ASSUME NInv, UNCHANGED <<raised, stale, quiet, floor>>,
         alone' = alone \/ alone' = 0,
         \A u \in Threads : Refreshing(u) => Refreshing(u)'
  PROVE  NInv'
BY DEF NInv, ReloadNotLost

\* NInv is preserved by every step.
LEMMA NotificationStep ==
  ASSUME IInv, NInv, [Next]_vars
  PROVE  NInv'
<1> USE DEF IInv, TypeOK
<1>1. ASSUME NEW t \in Threads,
             \/ TryGet(t) \/ OpenScan(t) \/ ScanMs(t) \/ EndScan(t)
             \/ ParseMs(t) \/ FindDn(t) \/ ParseDn(t) \/ TryAdd(t)
             \/ OpenMs(t) \/ NextMs(t) \/ OpenDn(t) \/ NextDn(t) \/ Yield(t)
             \/ MarkInit(t)
      PROVE  NInv'
  <2>1. UNCHANGED <<raised, stale, phase, alone, quiet, floor>>
    BY <1>1 DEF TryGet, OpenScan, ScanMs, EndScan, ParseMs, FindDn, ParseDn,
                TryAdd, OpenMs, NextMs, OpenDn, NextDn, Yield, MarkInit,
                shared, config, history
  <2>2. ~Refreshing(t)
    BY <1>1 DEF TryGet, OpenScan, ScanMs, EndScan, ParseMs, FindDn, ParseDn,
                TryAdd, OpenMs, NextMs, OpenDn, NextDn, Yield, MarkInit,
                Refreshing
  <2>3. \A u \in Threads \ {t} : pc'[u] = pc[u]
    BY <1>1 DEF TryGet, OpenScan, ScanMs, EndScan, ParseMs, FindDn, ParseDn,
                TryAdd, OpenMs, NextMs, OpenDn, NextDn, Yield, MarkInit,
                Parsed, Goto, CallTypes
  <2>4. \A u \in Threads : Refreshing(u) => Refreshing(u)'
    BY <2>1, <2>2, <2>3 DEF Refreshing
  <2> QED BY <2>1, <2>4, NotificationFrame
<1>2. ASSUME NEW t \in Threads, ReturnGet(t) \/ FailAll(t) \/ EndAll(t)
      PROVE  NInv'
  <2>1. Leave(t) /\ UNCHANGED <<config, shared, history>>
    BY <1>2 DEF ReturnGet, FailAll, EndAll
  <2>2. ~Refreshing(t)
    BY <1>2 DEF ReturnGet, FailAll, EndAll, Refreshing
  <2>3. \A u \in Threads \ {t} : pc'[u] = pc[u] /\ phase'[u] = phase[u]
    BY <2>1 DEF Leave, Goto, CallTypes
  <2>4. \A u \in Threads : Refreshing(u) => Refreshing(u)'
    BY <2>2, <2>3 DEF Refreshing
  <2> QED BY <2>1, <2>4, NotificationFrame DEF config, shared, history
<1>3. ASSUME NEW t \in Threads, EnsureInit(t)
      PROVE  NInv'
  <2>1. ~Refreshing(t)
    BY <1>3 DEF EnsureInit, Refreshing
  <2>2. \A u \in Threads \ {t} : pc'[u] = pc[u] /\ phase'[u] = phase[u]
    BY <1>3 DEF EnsureInit, Goto, CallTypes
  <2>3. \A u \in Threads : Refreshing(u) => Refreshing(u)'
    BY <2>1, <2>2 DEF Refreshing
  <2> QED BY <1>3, <2>3, NotificationFrame DEF EnsureInit, config, shared, history
<1>4. ASSUME NEW t \in Threads, ReadSections(t) \/ StoreDn(t) \/ StoreMs(t)
      PROVE  NInv'
  <2>1. UNCHANGED <<raised, stale, phase, alone, quiet, floor>>
    BY <1>4 DEF ReadSections, StoreDn, StoreMs, config, shared, history
  <2>2. \A u \in Threads \ {t} : pc'[u] = pc[u]
    BY <1>4 DEF ReadSections, StoreDn, StoreMs, Goto, CallTypes
  <2>3. phase[t] = "refresh" => pc'[t] \in {"storeDn", "readMs", "storeMs", "clear"}
    BY <1>4 DEF ReadSections, StoreDn, StoreMs, Goto, CallTypes
  <2>4. \A u \in Threads : Refreshing(u) => Refreshing(u)'
    BY <2>1, <2>2, <2>3 DEF Refreshing
  <2> QED BY <2>1, <2>4, NotificationFrame
<1>5. ASSUME NEW t \in Threads, ExchangeStale(t)
      PROVE  NInv'
  <2>1. CASE stale
    <3>1. pc'[t] = "readDn" /\ phase'[t] = "refresh"
      BY <1>5, <2>1 DEF ExchangeStale, Goto, CallTypes
    <3>2. Refreshing(t)'
      BY <3>1 DEF Refreshing
    <3>3. alone' = raised \/ alone' = 0
      BY <1>5, <2>1 DEF ExchangeStale
    <3>4. raised' = raised
      BY <1>5 DEF ExchangeStale, config
    <3> QED BY <3>2, <3>3, <3>4 DEF NInv, ReloadNotLost
  <2>2. CASE ~stale
    <3>1. UNCHANGED <<raised, phase, alone, quiet, floor>>
      BY <1>5, <2>2 DEF ExchangeStale, config
    <3>2. stale' = stale
      BY <1>5, <2>2 DEF ExchangeStale, CacheTypes
    <3>3. ~Refreshing(t)
      BY <1>5 DEF ExchangeStale, Refreshing
    <3>4. \A u \in Threads \ {t} : pc'[u] = pc[u]
      BY <1>5 DEF ExchangeStale, Goto, CallTypes
    <3>5. \A u \in Threads : Refreshing(u) => Refreshing(u)'
      BY <3>1, <3>3, <3>4 DEF Refreshing
    <3> QED BY <3>1, <3>2, <3>5, NotificationFrame
  <2> QED BY <2>1, <2>2
<1>6. ASSUME NEW t \in Threads, Clear(t)
      PROVE  NInv'
  <2>1. /\ UNCHANGED <<raised, stale>> /\ alone' = 0
        /\ quiet' = (alone # 0)
        /\ alone # 0 => floor' = alone
    BY <1>6 DEF Clear, config
  <2> QED BY <2>1 DEF NInv, ReloadNotLost
<1>7. ASSUME NEW t \in Threads,
             (\E f \in Features : StartGet(t, f)) \/ StartAll(t)
      PROVE  NInv'
  <2>1. pc[t] = "idle" /\ UNCHANGED <<raised, stale, phase, quiet, floor>>
    BY <1>7 DEF StartGet, StartAll, Enter, config, shared
  <2>2. alone' = alone \/ alone' = 0
    BY <1>7 DEF StartGet, StartAll, Enter
  <2>3. \A u \in Threads \ {t} : pc'[u] = pc[u]
    BY <1>7 DEF StartGet, StartAll, Enter, Goto, CallTypes
  <2>4. \A u \in Threads : Refreshing(u) => Refreshing(u)'
    BY <2>1, <2>3 DEF Refreshing
  <2> QED BY <2>1, <2>2, <2>4, NotificationFrame
<1>8. CASE Load
  BY <1>8, NotificationFrame DEF Load, shared, history, Refreshing
<1>9. CASE RaiseChanged
  BY <1>9 DEF RaiseChanged, NInv, ReloadNotLost
<1>10. CASE UNCHANGED vars
  BY <1>10, NotificationFrame DEF vars, config, shared, history, Refreshing
<1> QED
  BY <1>1, <1>2, <1>3, <1>4, <1>5, <1>6, <1>7, <1>8, <1>9, <1>10
     DEF Next, Step

\* A reload whose token has fired is flagged, being taken up or taken up, as
\* long as the last refresh overlapped no other call (Interlocked.Exchange).
THEOREM NoReloadLost == Spec => []ReloadNotLost
<1>1. Init => NInv
  BY DEF Init, NInv, ReloadNotLost
<1>2. NInv => ReloadNotLost
  BY DEF NInv
<1> QED BY Inductive, NotificationStep, <1>1, <1>2, PTL DEF Spec

-----------------------------------------------------------------------------
(* CapturedOwnDefinition: a search of captured sections reads the dictionary  *)
(* they captured, so a reload cannot change it under way.                  *)

\* The match a search has found so far is in the list it captured.
Match(t) ==
  /\ pc[t] \in {"scan", "parseMs"} /\ found[t] # 0 =>
       /\ found[t] \in DOMAIN configs[sec[t]].ms
       /\ configs[sec[t]].ms[found[t]] = feature[t]
  /\ pc[t] = "parseMs" => found[t] # 0
  /\ Answering(t) => draft[t].name = feature[t]

\* The cache and every call keep to the name they were asked for.
OInv ==
  /\ \A f \in Features : definitions[f] # NoEntry => definitions[f].name = f
  /\ \A t \in Threads : Match(t)

\* No step of a call changes the configuration, and reloads only add to it.
LEMMA Grows ==
  ASSUME [Next]_vars
  PROVE  /\ configs' = configs \/ \E c \in Configurations : configs' = Append(configs, c)
         /\ captured' = captured
<1>1. ASSUME NEW t \in Threads, Step(t) PROVE UNCHANGED <<configs, captured>>
  BY <1>1 DEF Step, EnsureInit, ReadSections, StoreDn, StoreMs, MarkInit,
     ExchangeStale, Clear, TryGet, OpenScan, ScanMs, EndScan, ParseMs, FindDn,
     ParseDn, TryAdd, ReturnGet, OpenMs, NextMs, OpenDn, NextDn, Yield,
     FailAll, EndAll, config
<1>2. ASSUME NEW t \in Threads, (\E f \in Features : StartGet(t, f)) \/ StartAll(t)
      PROVE  UNCHANGED <<configs, captured>>
  BY <1>2 DEF StartGet, StartAll, Enter, config
<1>3. CASE RaiseChanged \/ UNCHANGED vars
  BY <1>3 DEF RaiseChanged, vars, config
<1> QED BY <1>1, <1>2, <1>3 DEF Next, Load

\* What the configuration has held stays in its history.
LEMMA History ==
  ASSUME IInv, [Next]_vars
  PROVE  \A v \in 1..Latest : configs'[v] = configs[v]
BY Grows DEF IInv, TypeOK, ConfigTypes, Latest

\* A thread that takes no step keeps its match.
LEMMA MatchKept ==
  ASSUME IInv, [Next]_vars, NEW u \in Threads, Match(u),
         feature'[u] = feature[u], sec'[u] = sec[u], found'[u] = found[u],
         pc'[u] = pc[u], draft'[u] = draft[u]
  PROVE  Match(u)'
<1>1. pc[u] \in {"scan", "parseMs"} => configs'[sec[u]] = configs[sec[u]]
  BY History DEF IInv, SearchOK, SearchLabels
<1> QED BY <1>1 DEF Match, Answering

\* What a step of a call leaves to the other threads.
LEMMA Others ==
  ASSUME IInv, NEW t \in Threads,
         \/ Step(t)
         \/ (\E f \in Features : StartGet(t, f)) \/ StartAll(t),
         NEW u \in Threads, u # t
  PROVE  /\ feature'[u] = feature[u] /\ pc'[u] = pc[u]
         /\ sec'[u] = sec[u] /\ found'[u] = found[u] /\ draft'[u] = draft[u]
         /\ pos'[u] = pos[u]
<1> USE DEF IInv, TypeOK, CallTypes, SearchTypes, DraftTypes
<1>1. CASE \/ EnsureInit(t) \/ ReadSections(t) \/ StoreDn(t) \/ StoreMs(t)
           \/ MarkInit(t) \/ ExchangeStale(t) \/ Clear(t)
  BY <1>1 DEF EnsureInit, ReadSections, StoreDn, StoreMs, MarkInit,
              ExchangeStale, Clear, Goto, search
<1>2. CASE \/ TryGet(t) \/ OpenScan(t) \/ ScanMs(t) \/ EndScan(t) \/ TryAdd(t)
  BY <1>2 DEF TryGet, OpenScan, ScanMs, EndScan, TryAdd, Goto, search
<1>3. CASE ParseMs(t) \/ FindDn(t) \/ ParseDn(t)
  BY <1>3 DEF ParseMs, FindDn, ParseDn, Parsed, Goto, search
<1>4. CASE ReturnGet(t) \/ FailAll(t) \/ EndAll(t)
  BY <1>4 DEF ReturnGet, FailAll, EndAll, Leave, Goto
<1>5. CASE OpenMs(t) \/ NextMs(t) \/ OpenDn(t) \/ NextDn(t) \/ Yield(t)
  <2>1. feature' = feature \/ \E f \in Features \cup {NoName} : feature' = [feature EXCEPT ![t] = f]
    <3>1. CASE NextMs(t)
      <4>1. IdAt(list[t], next[t]) \in Features \cup {NoName}
        BY <3>1, IdType DEF SearchOK, NextMs
      <4> QED BY <3>1, <4>1 DEF NextMs
    <3>2. CASE NextDn(t)
      BY <3>2 DEF NextDn, ListTypes
    <3> QED BY <1>5, <3>1, <3>2 DEF OpenMs, OpenDn, Yield
  <2>2. pc'[u] = pc[u]
    BY <1>5 DEF OpenMs, NextMs, OpenDn, NextDn, Yield, Goto
  <2>3. UNCHANGED <<search, draft>>
    BY <1>5 DEF OpenMs, NextMs, OpenDn, NextDn, Yield
  <2> QED BY <2>1, <2>2, <2>3 DEF search
<1>6. CASE (\E f \in Features : StartGet(t, f)) \/ StartAll(t)
  BY <1>6 DEF StartGet, StartAll, Enter, Goto, search
<1> QED BY <1>1, <1>2, <1>3, <1>4, <1>5, <1>6 DEF Step

\* OInv is preserved by every step when sections are captured.
LEMMA OwnStep ==
  ASSUME captured, IInv, OInv, [Next]_vars
  PROVE  OInv'
<1> USE DEF IInv, TypeOK, OInv
<1>1. \A t \in Threads : Match(t)'
  <2>1. ASSUME NEW t \in Threads,
               \/ Step(t)
               \/ (\E f \in Features : StartGet(t, f)) \/ StartAll(t)
        PROVE  \A u \in Threads : Match(u)'
    <3>1. \A u \in Threads \ {t} : Match(u)'
      BY <2>1, Others, MatchKept
    <3>2. pc[t] \in {"scan", "parseMs"} => configs'[sec[t]] = configs[sec[t]]
      BY History DEF SearchOK, SearchLabels
    <3>3. CASE OpenScan(t)
      <4>1. pc'[t] = "scan" /\ found'[t] = 0
        BY <3>3 DEF OpenScan, Goto, CallTypes, SearchTypes
      <4>2. Match(t)'
        BY <4>1 DEF Match, Answering
      <4> QED BY <3>1, <4>2
    <3>4. CASE ScanMs(t)
      <4>1. IdAt(sec[t], pos[t]) = feature[t] =>
              /\ pos[t] \in DOMAIN configs[sec[t]].ms
              /\ configs[sec[t]].ms[pos[t]] = feature[t]
        BY <3>4, NameAssumption DEF ScanMs, IdAt, Live, SearchOK, LookupLabels
      <4>2. pc[t] = "scan" /\ UNCHANGED <<pc, sec, feature, draft>>
        BY <3>4 DEF ScanMs
      <4>3. \/ found'[t] = found[t]
            \/ found'[t] = pos[t] /\ IdAt(sec[t], pos[t]) = feature[t]
        BY <3>4 DEF ScanMs, SearchTypes
      <4>4. Match(t)'
        BY <3>2, <4>1, <4>2, <4>3 DEF Match, Answering
      <4> QED BY <3>1, <4>4
    <3>5. CASE EndScan(t)
      <4>1. /\ pc[t] = "scan" /\ UNCHANGED <<found, sec, feature, draft>>
            /\ pc'[t] = IF found[t] = 0 THEN "findDn" ELSE "parseMs"
        BY <3>5 DEF EndScan, Goto, CallTypes, search
      <4>2. Match(t)'
        BY <3>2, <4>1 DEF Match, Answering
      <4> QED BY <3>1, <4>2
    <3>6. CASE ParseMs(t)
      <4>1. IdAt(sec[t], found[t]) = feature[t]
        BY <3>6 DEF ParseMs, IdAt, Live, Match
      <4>2. /\ draft'[t].name = IdAt(sec[t], found[t]) /\ UNCHANGED feature
            /\ pc'[t] \in {"return", "tryAdd"}
        BY <3>6 DEF ParseMs, Parsed, Goto, DraftTypes, CallTypes
      <4>3. Match(t)'
        BY <4>1, <4>2 DEF Match, Answering
      <4> QED BY <3>1, <4>3
    <3>7. CASE FindDn(t) \/ ParseDn(t)
      <4>1. /\ pc'[t] = "parseDn" \/ draft'[t].name = feature[t]
            /\ UNCHANGED feature /\ pc'[t] \notin {"scan", "parseMs"}
        BY <3>7 DEF FindDn, ParseDn, Parsed, Goto, DraftTypes, CallTypes
      <4>2. Match(t)'
        BY <4>1 DEF Match, Answering
      <4> QED BY <3>1, <4>2
    <3>8. CASE TryGet(t) \/ TryAdd(t)
      <4>1. feature[t] \in Features /\ UNCHANGED feature
        BY <3>8 DEF TryGet, TryAdd, SearchOK, LookupLabels
      <4>2. pc'[t] \in {"openScan", "return"}
        BY <3>8 DEF TryGet, TryAdd, Goto, CallTypes
      <4>3. pc'[t] = "return" => draft'[t].name = feature[t]
        BY <3>8, <4>1 DEF TryGet, TryAdd, Goto, DraftTypes, CallTypes, Match, Answering
      <4>4. Match(t)'
        BY <4>1, <4>2, <4>3 DEF Match, Answering
      <4> QED BY <3>1, <4>4
    <3>9. CASE \/ EnsureInit(t) \/ ReadSections(t) \/ StoreDn(t) \/ StoreMs(t)
               \/ MarkInit(t) \/ ExchangeStale(t) \/ Clear(t)
               \/ ReturnGet(t) \/ FailAll(t) \/ EndAll(t)
               \/ OpenMs(t) \/ NextMs(t) \/ OpenDn(t) \/ NextDn(t) \/ Yield(t)
               \/ (\E f \in Features : StartGet(t, f)) \/ StartAll(t)
      <4>1. pc'[t] \notin {"scan", "parseMs", "tryAdd", "return"}
        BY <3>9 DEF EnsureInit, ReadSections, StoreDn, StoreMs, MarkInit,
              ExchangeStale, Clear, ReturnGet, FailAll, EndAll, Leave, OpenMs,
              NextMs, OpenDn, NextDn, Yield, StartGet, StartAll, Enter, Body,
              Goto, CallTypes
      <4>2. Match(t)'
        BY <4>1 DEF Match, Answering
      <4> QED BY <3>1, <4>2
    <3> QED
      BY <2>1, <3>3, <3>4, <3>5, <3>6, <3>7, <3>8, <3>9 DEF Step
  <2>2. CASE Load \/ RaiseChanged \/ UNCHANGED vars
    <3>1. UNCHANGED <<feature, sec, found, pc, draft>>
      BY <2>2 DEF Load, RaiseChanged, vars, search
    <3> QED BY <3>1, MatchKept
  <2> QED BY <2>1, <2>2 DEF Next
<1>2. \A f \in Features : definitions'[f] # NoEntry => definitions'[f].name = f
  <2>1. ASSUME NEW t \in Threads, TryAdd(t)
        PROVE  \A f \in Features : definitions'[f] # NoEntry => definitions'[f].name = f
    <3>1. feature[t] \in Features /\ draft[t].name = feature[t]
      BY <2>1 DEF TryAdd, SearchOK, LookupLabels, Match, Answering
    <3> QED BY <2>1, <3>1 DEF TryAdd, CacheTypes
  <2>2. ASSUME NEW t \in Threads, Clear(t)
        PROVE  \A f \in Features : definitions'[f] = NoEntry
    BY <2>2 DEF Clear
  <2>3. ASSUME NEW t \in Threads,
               \/ EnsureInit(t) \/ ReadSections(t) \/ StoreDn(t) \/ StoreMs(t)
               \/ MarkInit(t) \/ ExchangeStale(t) \/ TryGet(t) \/ OpenScan(t)
               \/ ScanMs(t) \/ EndScan(t) \/ ParseMs(t) \/ FindDn(t)
               \/ ParseDn(t) \/ ReturnGet(t) \/ FailAll(t) \/ EndAll(t)
               \/ OpenMs(t) \/ NextMs(t) \/ OpenDn(t) \/ NextDn(t) \/ Yield(t)
               \/ (\E f \in Features : StartGet(t, f)) \/ StartAll(t)
        PROVE  UNCHANGED definitions
    BY <2>3 DEF EnsureInit, ReadSections, StoreDn, StoreMs, MarkInit,
          ExchangeStale, TryGet, OpenScan, ScanMs, EndScan, ParseMs, FindDn,
          ParseDn, ReturnGet, FailAll, EndAll, OpenMs, NextMs, OpenDn, NextDn,
          Yield, StartGet, StartAll, Enter, shared
  <2>4. CASE Load \/ RaiseChanged \/ UNCHANGED vars
    BY <2>4 DEF Load, RaiseChanged, vars, shared
  <2> QED BY <2>1, <2>2, <2>3, <2>4 DEF Next, Step
<1> QED BY <1>1, <1>2

\* Where sections are captured, the definition cached or returned for a name is always the
\* definition of that name (GetMicrosoftSchemaFeatureDefinition).
THEOREM CapturedNames == Spec => []CapturedOwnDefinition
<1>1. Init => (captured => OInv)
  BY DEF Init, OInv, Match, Answering
<1>2. IInv /\ (captured => OInv) /\ [Next]_vars => (captured => OInv)'
  BY OwnStep, Grows
<1>3. (captured => OInv) => CapturedOwnDefinition
  BY DEF OInv, Match, OwnDefinition, CapturedOwnDefinition
<1> QED BY Inductive, <1>1, <1>2, <1>3, PTL DEF Spec

-----------------------------------------------------------------------------
(* AlwaysDefinedIsFound: a search that misses has seen a content without the *)
(* feature in each schema, so the feature has not always been defined.     *)

\* A feature is at an index of every content of a history.
At(cs, f, i) == \A v \in DOMAIN cs : i \in DOMAIN cs[v].ms /\ cs[v].ms[i] = f

\* A feature is a flag of every content, at one index if flags are read live.
Everywhere(cs, f) ==
  \/ captured /\ \A v \in DOMAIN cs : f \in Flags(cs[v])
  \/ \E i \in DOMAIN cs[1].ms : At(cs, f, i)

\* What a search that has found nothing so far has ruled out.
RuledOut(t) ==
  /\ pc[t] = "scan" /\ found[t] = 0 =>
       \A i \in DOMAIN configs[sec[t]].ms : i < pos[t] =>
         /\ captured => configs[sec[t]].ms[i] # feature[t]
         /\ ~At(configs, feature[t], i)
  /\ pc[t] = "findDn" => ~Everywhere(configs, feature[t])
  /\ Answering(t) /\ draft[t].schema = "none" => ~AlwaysDefined(feature[t])

\* No cached and no pending definition is null for a feature always defined.
AInv ==
  /\ \A f \in Features :
       definitions[f].schema = "none" => ~AlwaysDefined(f)
  /\ \A t \in Threads : RuledOut(t)

\* A feature is always defined if its flag or its own section is in every configuration.
LEMMA AlwaysIsEverywhere ==
  ASSUME NEW f
  PROVE  AlwaysDefined(f) <=> Everywhere(configs, f) \/ \A v \in DOMAIN configs : f \in configs[v].dn
BY DEF AlwaysDefined, AlwaysAt, Everywhere, At

\* A reload can end a feature's being always defined, never bring it back.
LEMMA EverywhereShrinks ==
  ASSUME IInv, [Next]_vars, NEW f
  PROVE  /\ \A i : At(configs', f, i) => At(configs, f, i)
         /\ Everywhere(configs, f)' => Everywhere(configs, f)
         /\ AlwaysDefined(f)' => AlwaysDefined(f)
<1>1. \A v \in DOMAIN configs : v \in DOMAIN configs' /\ configs'[v] = configs[v]
  BY Grows DEF IInv, TypeOK, ConfigTypes
<1>2. \A i : At(configs', f, i) => At(configs, f, i)
  BY <1>1 DEF At
<1>3. captured' = captured /\ configs'[1] = configs[1]
  <2>1. 1 \in DOMAIN configs
    BY BoundAssumption DEF IInv, TypeOK, ConfigTypes
  <2> QED BY <1>1, <2>1, Grows
<1>4. Everywhere(configs, f)' => Everywhere(configs, f)
  BY <1>1, <1>2, <1>3 DEF Everywhere
<1>5. (\A v \in DOMAIN configs : f \in configs[v].dn)' => \A v \in DOMAIN configs : f \in configs[v].dn
  BY <1>1
<1>6. AlwaysDefined(f)' <=> Everywhere(configs, f)' \/ (\A v \in DOMAIN configs : f \in configs[v].dn)'
  BY DEF AlwaysDefined, AlwaysAt, Everywhere, At
<1> QED BY <1>2, <1>4, <1>5, <1>6, AlwaysIsEverywhere

\* A thread that takes no step has ruled out no less.
LEMMA RuledOutKept ==
  ASSUME IInv, [Next]_vars, NEW u \in Threads, RuledOut(u),
         feature'[u] = feature[u], sec'[u] = sec[u], found'[u] = found[u],
         pos'[u] = pos[u], pc'[u] = pc[u], draft'[u] = draft[u]
  PROVE  RuledOut(u)'
<1>1. pc[u] \in {"scan", "findDn"} => configs'[sec[u]] = configs[sec[u]]
  BY History DEF IInv, SearchOK, SearchLabels
<1>2. /\ \A i : At(configs', feature[u], i) => At(configs, feature[u], i)
      /\ Everywhere(configs, feature[u])' => Everywhere(configs, feature[u])
      /\ AlwaysDefined(feature[u])' => AlwaysDefined(feature[u])
  <2>1. /\ \A i : At(configs', feature[u], i) => At(configs, feature[u], i)
        /\ Everywhere(configs', feature[u]) => Everywhere(configs, feature[u])
    BY EverywhereShrinks, Grows DEF Everywhere
  <2> QED BY <2>1, EverywhereShrinks
<1> QED BY <1>1, <1>2, Grows DEF RuledOut, Answering

\* A step that neither searches nor answers rules nothing out.
LEMMA ElsewhereRulesNothingOut ==
  ASSUME IInv, NEW t \in Threads,
         \/ EnsureInit(t) \/ ReadSections(t) \/ StoreDn(t) \/ StoreMs(t)
         \/ MarkInit(t) \/ ExchangeStale(t) \/ Clear(t)
         \/ ReturnGet(t) \/ FailAll(t) \/ EndAll(t)
         \/ OpenMs(t) \/ NextMs(t) \/ OpenDn(t) \/ NextDn(t) \/ Yield(t)
         \/ (\E f \in Features : StartGet(t, f)) \/ StartAll(t)
  PROVE  RuledOut(t)'
<1>1. pc'[t] \notin {"scan", "findDn", "tryAdd", "return"}
  BY DEF EnsureInit, ReadSections, StoreDn, StoreMs, MarkInit, ExchangeStale,
     Clear, ReturnGet, FailAll, EndAll, Leave, OpenMs, NextMs, OpenDn, NextDn,
     Yield, StartGet, StartAll, Enter, Body, Goto, IInv, TypeOK, CallTypes
<1> QED BY <1>1 DEF RuledOut, Answering

\* The steps of a search: what each has ruled out when it is done.
LEMMA SearchRulesOut ==
  ASSUME IInv, AInv, [Next]_vars, NEW t \in Threads,
         \/ OpenScan(t) \/ ScanMs(t) \/ EndScan(t)
         \/ ParseMs(t) \/ FindDn(t) \/ ParseDn(t)
  PROVE  RuledOut(t)'
<1> USE DEF IInv, TypeOK
<1>1. pc[t] \in SearchLabels =>
        sec[t] \in 1..Latest /\ configs'[sec[t]] = configs[sec[t]]
  BY History DEF SearchOK
<1>2. RuledOut(t)
  BY DEF AInv
<1>3. CASE OpenScan(t)
  <2>1. pc'[t] = "scan" /\ pos'[t] = 1
    BY <1>3 DEF OpenScan, Goto, CallTypes, SearchTypes
  <2>2. msVer \in 1..Latest /\ sec'[t] = msVer
    BY <1>3 DEF OpenScan, InitOrder, InitLabels, VersionsExist, SearchTypes
  <2>3. configs'[msVer] = configs[msVer]
    BY <2>2, History
  <2>4. configs[msVer].ms \in Seq(Features \cup {NoName})
    BY <2>2, Content
  <2> QED BY <2>1, <2>2, <2>3, <2>4 DEF RuledOut, Answering
<1>4. CASE ScanMs(t)
  <2>1. /\ pc[t] = "scan" /\ UNCHANGED <<pc, sec, feature, configs, captured>>
        /\ pos'[t] = pos[t] + 1 /\ pos[t] \in Nat
    BY <1>4 DEF ScanMs, SearchTypes, config
  <2>2. configs[sec[t]].ms \in Seq(Features \cup {NoName})
    BY <1>1, <2>1, Content DEF SearchLabels
  <2>3. pos[t] \in DOMAIN configs[sec[t]].ms /\ IdAt(sec[t], pos[t]) # feature[t] =>
          /\ captured => configs[sec[t]].ms[pos[t]] # feature[t]
          /\ ~At(configs, feature[t], pos[t])
    <3>1. captured /\ pos[t] \in DOMAIN configs[sec[t]].ms =>
            IdAt(sec[t], pos[t]) = configs[sec[t]].ms[pos[t]]
      BY DEF IdAt, Live
    <3>2. At(configs, feature[t], pos[t]) => IdAt(sec[t], pos[t]) = feature[t]
      <4>1. Live(sec[t]) \in DOMAIN configs
        BY <1>1, <2>1, LiveVersion DEF SearchLabels, ConfigTypes, Latest
      <4> QED BY <4>1 DEF At, IdAt
    <3> QED BY <3>1, <3>2
  <2>4. found'[t] = 0 =>
          pos[t] = 0 \/ (found[t] = 0 /\ IdAt(sec[t], pos[t]) # feature[t])
    BY <1>4, <2>1 DEF ScanMs, SearchTypes
  <2> DEFINE Out(i) == /\ captured => configs[sec[t]].ms[i] # feature[t]
                       /\ ~At(configs, feature[t], i)
  <2>5. found'[t] = 0 =>
          \A i \in DOMAIN configs[sec[t]].ms : i < pos[t] + 1 => Out(i)
    <3>1. CASE pos[t] = 0
      BY <2>2, <3>1
    <3>2. CASE found[t] = 0 /\ IdAt(sec[t], pos[t]) # feature[t]
      <4>1. \A i \in DOMAIN configs[sec[t]].ms : i < pos[t] => Out(i)
        BY <1>2, <2>1, <3>2, Zenon DEF RuledOut
      <4>2. \A i \in DOMAIN configs[sec[t]].ms : i \in Nat
        BY <2>2
      <4>3. \A i \in DOMAIN configs[sec[t]].ms : i < pos[t] + 1 => i < pos[t] \/ i = pos[t]
        BY <2>1, <4>2
      <4> QED BY <2>3, <3>2, <4>1, <4>3, Zenon
    <3> QED BY <2>4, <3>1, <3>2
  <2> QED BY <1>1, <2>1, <2>5 DEF RuledOut, Answering, SearchLabels
<1>5. CASE EndScan(t)
  <2>1. /\ pc[t] = "scan" /\ UNCHANGED <<sec, feature, configs, captured>> /\ pos[t] \in Nat
        /\ pos[t] > Len(configs[sec[t]].ms)
        /\ pc'[t] = "findDn" => found[t] = 0
        /\ pc'[t] \in {"findDn", "parseMs"}
    BY <1>5 DEF EndScan, Goto, CallTypes, SearchTypes, search, config
  <2>2. configs[sec[t]].ms \in Seq(Features \cup {NoName})
    BY <1>1, <2>1, Content DEF SearchLabels
  <2>3. sec[t] \in DOMAIN configs /\ \A i \in DOMAIN configs[sec[t]].ms : i < pos[t]
    BY <1>1, <2>1, <2>2 DEF SearchLabels, ConfigTypes, Latest
  <2>4. found[t] = 0 => ~Everywhere(configs, feature[t])
    <3>1. ASSUME found[t] = 0
          PROVE  \A i \in DOMAIN configs[sec[t]].ms :
                   /\ captured => configs[sec[t]].ms[i] # feature[t]
                   /\ ~At(configs, feature[t], i)
      BY <1>2, <2>1, <2>3, <3>1 DEF RuledOut
    <3>2. \A i : At(configs, feature[t], i) => i \in DOMAIN configs[sec[t]].ms
      BY <2>3 DEF At
    <3> QED BY <2>3, <3>1, <3>2 DEF Everywhere, Flags
  <2> QED BY <2>1, <2>4 DEF RuledOut, Answering, Everywhere
<1>6. CASE ParseMs(t) \/ ParseDn(t)
  <2>1. pc'[t] \in {"return", "tryAdd"} /\ draft'[t].schema # "none"
    BY <1>6 DEF ParseMs, ParseDn, Parsed, Goto, DraftTypes, CallTypes
  <2> QED BY <2>1 DEF RuledOut, Answering
<1>7. CASE FindDn(t)
  <2>1. /\ pc[t] = "findDn" /\ UNCHANGED feature
        /\ pc'[t] = "parseDn" \/ feature[t] \notin configs[dnVer].dn
        /\ pc'[t] \in {"parseDn", "tryAdd"}
    BY <1>7 DEF FindDn, Parsed, Goto, CallTypes
  <2>2. dnVer \in DOMAIN configs
    BY <2>1 DEF InitOrder, InitLabels, VersionsExist, ConfigTypes, Latest
  <2>3. pc'[t] = "parseDn" \/ ~AlwaysDefined(feature[t])
    BY <1>2, <2>1, <2>2, AlwaysIsEverywhere DEF RuledOut
  <2>4. pc'[t] = "parseDn" \/ ~AlwaysDefined(feature[t])'
    BY <2>1, <2>3, EverywhereShrinks DEF AlwaysDefined, AlwaysAt
  <2> QED BY <2>1, <2>4 DEF RuledOut, Answering
<1> QED BY <1>3, <1>4, <1>5, <1>6, <1>7

\* AInv is preserved by every step.
LEMMA FoundStep ==
  ASSUME IInv, AInv, [Next]_vars
  PROVE  AInv'
<1> USE DEF IInv, TypeOK, AInv
<1>1. \A t \in Threads : RuledOut(t)'
  <2>1. ASSUME NEW t \in Threads,
               \/ Step(t)
               \/ (\E f \in Features : StartGet(t, f)) \/ StartAll(t)
        PROVE  \A u \in Threads : RuledOut(u)'
    <3>1. \A u \in Threads \ {t} : RuledOut(u)'
      BY <2>1, Others, RuledOutKept
    <3>2. CASE TryGet(t) \/ TryAdd(t)
      <4>1. /\ feature[t] \in Features /\ UNCHANGED feature
            /\ pc'[t] \in {"openScan", "return"}
        BY <3>2 DEF TryGet, TryAdd, SearchOK, LookupLabels, Goto, CallTypes
      <4>2. pc'[t] = "return" =>
              \/ draft'[t] = definitions[feature[t]]
              \/ draft'[t] = draft[t] /\ Answering(t)
        BY <3>2 DEF TryGet, TryAdd, Goto, DraftTypes, CallTypes, Answering
      <4>3. pc'[t] = "return" /\ draft'[t].schema = "none" =>
              ~AlwaysDefined(feature[t])
        BY <4>1, <4>2 DEF RuledOut
      <4>4. pc'[t] = "return" /\ draft'[t].schema = "none" =>
              ~AlwaysDefined(feature[t])'
        BY <4>1, <4>3, EverywhereShrinks DEF AlwaysDefined, AlwaysAt
      <4>5. RuledOut(t)'
        BY <4>1, <4>4 DEF RuledOut, Answering
      <4> QED BY <3>1, <4>5
    <3>3. CASE \/ OpenScan(t) \/ ScanMs(t) \/ EndScan(t)
               \/ ParseMs(t) \/ FindDn(t) \/ ParseDn(t)
      <4>1. RuledOut(t)'
        BY <3>3, SearchRulesOut
      <4> QED BY <3>1, <4>1
    <3>4. CASE \/ EnsureInit(t) \/ ReadSections(t) \/ StoreDn(t) \/ StoreMs(t)
               \/ MarkInit(t) \/ ExchangeStale(t) \/ Clear(t)
               \/ ReturnGet(t) \/ FailAll(t) \/ EndAll(t)
               \/ OpenMs(t) \/ NextMs(t) \/ OpenDn(t) \/ NextDn(t) \/ Yield(t)
               \/ (\E f \in Features : StartGet(t, f)) \/ StartAll(t)
      <4>1. RuledOut(t)'
        BY <3>4, ElsewhereRulesNothingOut
      <4> QED BY <3>1, <4>1
    <3> QED BY <2>1, <3>2, <3>3, <3>4 DEF Step
  <2>2. CASE Load \/ RaiseChanged \/ UNCHANGED vars
    <3>1. UNCHANGED <<feature, sec, pos, found, pc, draft>>
      BY <2>2 DEF Load, RaiseChanged, vars, search
    <3> QED BY <3>1, RuledOutKept
  <2> QED BY <2>1, <2>2 DEF Next
<1>2. \A f \in Features :
        definitions'[f].schema = "none" => ~AlwaysDefined(f)
  <2>1. ASSUME NEW t \in Threads, TryAdd(t)
        PROVE  \A f \in Features :
                 definitions'[f].schema = "none" => ~AlwaysDefined(f)
    <3>1. draft[t].schema = "none" => ~AlwaysDefined(feature[t])
      BY <2>1 DEF TryAdd, RuledOut, Answering
    <3> QED BY <2>1, <3>1 DEF TryAdd, CacheTypes
  <2>2. ASSUME NEW t \in Threads, Clear(t)
        PROVE  \A f \in Features : definitions'[f].schema # "none"
    BY <2>2 DEF Clear, NoEntry
  <2>3. ASSUME NEW t \in Threads,
               \/ EnsureInit(t) \/ ReadSections(t) \/ StoreDn(t) \/ StoreMs(t)
               \/ MarkInit(t) \/ ExchangeStale(t) \/ TryGet(t) \/ OpenScan(t)
               \/ ScanMs(t) \/ EndScan(t) \/ ParseMs(t) \/ FindDn(t)
               \/ ParseDn(t) \/ ReturnGet(t) \/ FailAll(t) \/ EndAll(t)
               \/ OpenMs(t) \/ NextMs(t) \/ OpenDn(t) \/ NextDn(t) \/ Yield(t)
               \/ (\E f \in Features : StartGet(t, f)) \/ StartAll(t)
        PROVE  UNCHANGED definitions
    BY <2>3 DEF EnsureInit, ReadSections, StoreDn, StoreMs, MarkInit,
          ExchangeStale, TryGet, OpenScan, ScanMs, EndScan, ParseMs, FindDn,
          ParseDn, ReturnGet, FailAll, EndAll, OpenMs, NextMs, OpenDn, NextDn,
          Yield, StartGet, StartAll, Enter, shared
  <2>4. CASE Load \/ RaiseChanged \/ UNCHANGED vars
    BY <2>4 DEF Load, RaiseChanged, vars, shared
  <2> QED BY <2>1, <2>2, <2>3, <2>4 DEF Next, Step
<1>3. \A f \in Features :
        definitions'[f].schema = "none" => ~AlwaysDefined(f)'
  BY <1>2, EverywhereShrinks
<1> QED BY <1>1, <1>3

\* A feature that every configuration so far defines in the same schema, at the same index of
\* the flags where they are read live, is never reported as unknown, whatever reloads
\* and refreshes the search overlaps (GetMicrosoftSchemaFeatureDefinition).
THEOREM AlwaysFound == Spec => []AlwaysDefinedIsFound
<1>1. Init => AInv
  BY DEF Init, AInv, RuledOut, Answering, NoEntry
<1>2. IInv /\ AInv /\ [Next]_vars => AInv'
  BY FoundStep
<1>3. AInv => AlwaysDefinedIsFound
  BY DEF AInv, RuledOut, Answering, AlwaysDefinedIsFound
<1> QED BY Inductive, <1>1, <1>2, <1>3, PTL DEF Spec

-----------------------------------------------------------------------------
(* Calls one at a time. While every reload has been notified and taken up, *)
(* all there is comes from the configuration in force: ListsEverything and *)
(* LatestWhenIdle, neither of which holds for calls that overlap a refresh.   *)

\* One call at a time.
OneThread == \A t, u \in Threads : t = u

\* Every reload has been notified and taken up.
Calm == ~stale /\ raised = Latest

\* The names the configuration in force defines.
Defined == Flags(configs[Latest]) \cup configs[Latest].dn

\* A definition is what the configuration in force says of its name.
Accurate(f, d) ==
  /\ d.name = f
  /\ d.version = Latest
  /\ d.schema = "none" <=> f \notin Defined

\* The section fields and the dictionary, unless a refresh is about to replace them.
FieldsCurrent ==
  (\A t \in Threads : ~Refreshing(t)) =>
     /\ initialized => dnVer = Latest /\ msVer = Latest
     /\ \A f \in Features : definitions[f] # NoEntry => Accurate(f, definitions[f])

\* The section lists that a call is storing.
StoringCurrent(t) ==
  /\ pc[t] \in {"storeDn", "storeMs"} => held[t] = Latest
  /\ pc[t] \in {"readMs", "storeMs", "markInit", "clear"} => dnVer = Latest
  /\ pc[t] \in {"markInit", "clear"} => msVer = Latest

\* The search of a call, and what it found.
SearchCurrent(t) ==
  LET ms == configs[Latest].ms
  IN /\ pc[t] \in SearchLabels => sec[t] = Latest
     /\ pc[t] = "scan" =>
          IF found[t] = 0 THEN \A i \in DOMAIN ms : i < pos[t] => ms[i] # feature[t]
          ELSE found[t] \in DOMAIN ms /\ ms[found[t]] = feature[t]
     /\ pc[t] = "parseMs" => found[t] \in DOMAIN ms /\ ms[found[t]] = feature[t]
     /\ pc[t] = "findDn" => feature[t] \notin Flags(configs[Latest])
     /\ pc[t] = "parseDn" => feature[t] \in configs[Latest].dn
     /\ Answering(t) => Accurate(feature[t], draft[t])

Current ==
  Calm => FieldsCurrent /\ \A t \in Threads : StoringCurrent(t) /\ SearchCurrent(t)

\* The steps of a search under a configuration that is in force.
LEMMA SearchCurrentStep ==
  ASSUME IInv, NEW t \in Threads, SearchCurrent(t), dnVer = Latest, msVer = Latest,
         \/ OpenScan(t) \/ ScanMs(t) \/ EndScan(t)
         \/ ParseMs(t) \/ FindDn(t) \/ ParseDn(t)
  PROVE  SearchCurrent(t)'
<1> USE DEF IInv, TypeOK
<1>1. Latest \in 1..Latest /\ UNCHANGED configs
  <2>1. Latest \in 1..Latest
    BY BoundAssumption DEF ConfigTypes, Latest
  <2>2. UNCHANGED configs
    BY DEF OpenScan, ScanMs, EndScan, ParseMs, FindDn, ParseDn, config
  <2> QED BY <2>1, <2>2
<1> DEFINE ms == configs[Latest].ms
<1>2. ms \in Seq(Features \cup {NoName}) /\ configs[Latest].dn \subseteq Features
  BY <1>1, Content
<1>3. \A i \in DOMAIN ms : IdAt(Latest, i) = ms[i]
  BY DEF IdAt, Live
<1>4. feature[t] \in Features /\ feature'[t] = feature[t]
  BY DEF SearchOK, LookupLabels, OpenScan, ScanMs, EndScan, ParseMs, FindDn, ParseDn
<1>5. Latest' = Latest /\ Flags(configs[Latest])' = Flags(configs[Latest])
  BY <1>1 DEF Latest, Flags
<1>6. CASE OpenScan(t)
  <2>1. pc'[t] = "scan" /\ pos'[t] = 1 /\ found'[t] = 0 /\ sec'[t] = Latest
    BY <1>6 DEF OpenScan, Goto, CallTypes, SearchTypes
  <2> QED BY <1>1, <1>2, <1>5, <2>1 DEF SearchCurrent, SearchLabels, Answering
<1>7. CASE ScanMs(t)
  <2>1. /\ pc[t] = "scan" /\ pc'[t] = "scan" /\ sec'[t] = sec[t] /\ sec[t] = Latest
        /\ pos'[t] = pos[t] + 1 /\ pos[t] \in Nat /\ pos[t] <= Len(ms)
    BY <1>7 DEF ScanMs, SearchTypes, SearchCurrent, SearchLabels
  <2>2. found'[t] = IF IdAt(Latest, pos[t]) = feature[t] THEN pos[t] ELSE found[t]
    BY <1>7, <2>1 DEF ScanMs, SearchTypes
  <2>3. pos[t] = 0 => IdAt(Latest, pos[t]) = NoName
    <3>1. 0 \notin DOMAIN ms
      BY <1>2
    <3>2. Live(Latest) = Latest
      BY DEF Live
    <3> QED BY <3>1, <3>2 DEF IdAt
  <2>4. pos[t] # 0 => pos[t] \in DOMAIN ms
    BY <1>2, <2>1
  <2>5. IF found'[t] = 0 THEN \A i \in DOMAIN ms : i < pos'[t] => ms[i] # feature[t]
        ELSE found'[t] \in DOMAIN ms /\ ms[found'[t]] = feature[t]
    <3>1. CASE IdAt(Latest, pos[t]) = feature[t]
      BY <1>3, <1>4, <2>2, <2>3, <2>4, <3>1, NameAssumption
    <3>2. CASE IdAt(Latest, pos[t]) # feature[t]
      <4>1. \A i \in DOMAIN ms : i < pos[t] + 1 => i < pos[t] \/ ms[i] # feature[t]
        BY <1>2, <1>3, <2>1, <3>2
      <4> QED BY <2>1, <2>2, <3>2, <4>1 DEF SearchCurrent
    <3> QED BY <3>1, <3>2
  <2> QED BY <1>1, <1>4, <1>5, <2>1, <2>5 DEF SearchCurrent, SearchLabels, Answering
<1>8. CASE EndScan(t)
  <2>1. /\ pc[t] = "scan" /\ pos[t] \in Nat /\ pos[t] > Len(ms) /\ sec[t] = Latest
        /\ sec'[t] = sec[t] /\ found'[t] = found[t]
        /\ pc'[t] = IF found[t] = 0 THEN "findDn" ELSE "parseMs"
    BY <1>8 DEF EndScan, Goto, CallTypes, SearchTypes, SearchCurrent, SearchLabels, search
  <2>2. found[t] = 0 => feature[t] \notin Flags(configs[Latest])
    BY <1>2, <2>1 DEF SearchCurrent, Flags
  <2> QED BY <1>1, <1>4, <1>5, <2>1, <2>2 DEF SearchCurrent, SearchLabels, Answering
<1>9. CASE ParseMs(t)
  <2>1. /\ draft'[t].name = IdAt(Latest, found[t]) /\ draft'[t].version = Live(Latest)
        /\ draft'[t].schema # "none" /\ pc'[t] \in {"return", "tryAdd"}
        /\ found[t] \in DOMAIN ms /\ ms[found[t]] = feature[t]
    BY <1>9 DEF ParseMs, Parsed, Goto, DraftTypes, CallTypes, SearchCurrent, SearchLabels
  <2>2. feature[t] \in Flags(configs[Latest])
    BY <2>1 DEF Flags
  <2>3. Live(Latest) = Latest
    BY DEF Live
  <2> QED
    BY <1>1, <1>3, <1>4, <1>5, <2>1, <2>2, <2>3
       DEF SearchCurrent, SearchLabels, Accurate, Defined
<1>10. CASE FindDn(t)
  <2>1. /\ sec[t] = Latest /\ feature[t] \notin Flags(configs[Latest])
        /\ IF feature[t] \in configs[Latest].dn THEN pc'[t] = "parseDn"
           ELSE /\ draft'[t].name = feature[t] /\ draft'[t].schema = "none"
                /\ draft'[t].version = Least(Latest, Latest) /\ pc'[t] = "tryAdd"
    BY <1>10 DEF FindDn, Parsed, Goto, DraftTypes, CallTypes, SearchCurrent, SearchLabels
  <2> QED
    BY <1>1, <1>4, <1>5, <2>1
       DEF SearchCurrent, SearchLabels, Accurate, Defined, Least, Answering
<1>11. CASE ParseDn(t)
  <2>1. /\ feature[t] \in configs[Latest].dn
        /\ draft'[t].name = feature[t] /\ draft'[t].schema # "none"
        /\ draft'[t].version = Latest /\ pc'[t] \in {"return", "tryAdd"}
    BY <1>11 DEF ParseDn, Parsed, Goto, DraftTypes, CallTypes, SearchCurrent
  <2> QED
    BY <1>1, <1>4, <1>5, <2>1 DEF SearchCurrent, SearchLabels, Accurate, Defined
<1> QED BY <1>6, <1>7, <1>8, <1>9, <1>10, <1>11

\* What a step of a call outside the search does to the fields and to what it stores.
LEMMA StoringCurrentStep ==
  ASSUME OneThread, IInv, Current, Calm, NEW t \in Threads,
         \/ EnsureInit(t) \/ ReadSections(t) \/ StoreDn(t) \/ StoreMs(t)
         \/ MarkInit(t) \/ Clear(t)
  PROVE  Current'
<1> USE DEF IInv, TypeOK, CallTypes, CacheTypes
<1>0. /\ FieldsCurrent /\ StoringCurrent(t) /\ \A u \in Threads : u = t
      /\ UNCHANGED <<configs, sec, pos, found, feature, draft>>
  BY DEF Current, OneThread, EnsureInit, ReadSections, StoreDn, StoreMs, MarkInit, Clear,
         config, search
<1>1. Latest' = Latest /\ Flags(configs[Latest])' = Flags(configs[Latest])
  BY <1>0 DEF Latest, Flags
<1>2. pc'[t] \notin SearchLabels \cup {"scan", "parseDn", "tryAdd", "return"}
  BY DEF EnsureInit, ReadSections, StoreDn, StoreMs, MarkInit, Clear, Goto, Body, SearchLabels
<1>3. \A u \in Threads : SearchCurrent(u)'
  BY <1>0, <1>2 DEF SearchCurrent, SearchLabels, Answering
<1>4. \A f \in Features : \A d : Accurate(f, d)' <=> Accurate(f, d)
  BY <1>0, <1>1 DEF Accurate, Defined
<1>5. CASE EnsureInit(t)
  BY <1>0, <1>1, <1>3, <1>4, <1>5
     DEF EnsureInit, Goto, shared, Current, FieldsCurrent, StoringCurrent, Refreshing
<1>6. CASE ReadSections(t)
  BY <1>0, <1>1, <1>3, <1>4, <1>6
     DEF ReadSections, Goto, shared, Current, FieldsCurrent, StoringCurrent, Refreshing
<1>7. CASE StoreDn(t)
  BY <1>0, <1>1, <1>3, <1>4, <1>7
     DEF StoreDn, Goto, Current, FieldsCurrent, StoringCurrent, Refreshing
<1>8. CASE StoreMs(t)
  BY <1>0, <1>1, <1>3, <1>4, <1>8
     DEF StoreMs, Goto, Current, FieldsCurrent, StoringCurrent, Refreshing
<1>9. CASE MarkInit(t)
  BY <1>0, <1>1, <1>3, <1>4, <1>9
     DEF MarkInit, Goto, Current, FieldsCurrent, StoringCurrent, Refreshing
<1>10. CASE Clear(t)
  BY <1>0, <1>1, <1>3, <1>4, <1>10
     DEF Clear, Goto, Body, Current, FieldsCurrent, StoringCurrent, Refreshing
<1> QED BY <1>5, <1>6, <1>7, <1>8, <1>9, <1>10

\* A step of a call that leaves the fields and the lists it stores alone.
LEMMA LookupCurrentStep ==
  ASSUME OneThread, IInv, Current, Calm, NEW t \in Threads,
         \/ TryGet(t) \/ TryAdd(t)
         \/ OpenScan(t) \/ ScanMs(t) \/ EndScan(t)
         \/ ParseMs(t) \/ FindDn(t) \/ ParseDn(t)
  PROVE  Current'
<1> USE DEF IInv, TypeOK, CallTypes, CacheTypes
<1>0. /\ FieldsCurrent /\ SearchCurrent(t) /\ \A u \in Threads : u = t
      /\ UNCHANGED <<configs, initialized, dnVer, msVer, feature>>
  BY DEF Current, OneThread, TryGet, TryAdd, OpenScan, ScanMs, EndScan, ParseMs, FindDn,
         ParseDn, config, shared
<1>1. Latest' = Latest /\ Flags(configs[Latest])' = Flags(configs[Latest])
  BY <1>0 DEF Latest, Flags
<1>2. /\ pc[t] \in LookupLabels /\ pc'[t] \in LookupLabels
      /\ initialized /\ feature[t] \in Features
  BY DEF TryGet, TryAdd, OpenScan, ScanMs, EndScan, ParseMs, FindDn, ParseDn, Parsed, Goto,
         LookupLabels, InitLabels, InitOrder, SearchOK
<1>3. /\ dnVer = Latest /\ msVer = Latest
      /\ \A f \in Features : definitions[f] # NoEntry => Accurate(f, definitions[f])
  BY <1>0, <1>2 DEF FieldsCurrent, Refreshing, LookupLabels
<1>4. \A f \in Features : \A d : Accurate(f, d)' <=> Accurate(f, d)
  BY <1>0, <1>1 DEF Accurate, Defined
<1>5. \A u \in Threads : StoringCurrent(u)' /\ ~Refreshing(u)'
  BY <1>0, <1>2 DEF StoringCurrent, Refreshing, LookupLabels
<1>6. CASE TryGet(t) \/ TryAdd(t)
  <2>1. /\ pc'[t] \in {"openScan", "return"}
        /\ pc'[t] = "return" =>
             \/ definitions[feature[t]] # NoEntry /\ draft'[t] = definitions[feature[t]]
             \/ Answering(t) /\ draft'[t] = draft[t]
    BY <1>6 DEF TryGet, TryAdd, Goto, DraftTypes, Answering
  <2>2. pc'[t] = "return" => Accurate(feature[t], draft'[t])
    BY <1>0, <1>2, <1>3, <2>1 DEF SearchCurrent
  <2>3. Accurate(feature[t], draft[t])' <=> Accurate(feature[t], draft'[t])
    BY <1>0, <1>1 DEF Accurate, Defined
  <2>4. \A u \in Threads : SearchCurrent(u)'
    BY <1>0, <2>1, <2>2, <2>3 DEF SearchCurrent, SearchLabels, Answering
  <2>5. \A f \in Features : definitions'[f] # NoEntry => Accurate(f, definitions'[f])
    <3>1. CASE TryGet(t)
      BY <1>3, <3>1 DEF TryGet, shared
    <3>2. CASE TryAdd(t)
      <4>1. Accurate(feature[t], draft[t])
        BY <1>0, <3>2 DEF TryAdd, SearchCurrent, Answering
      <4> QED BY <1>2, <1>3, <3>2, <4>1 DEF TryAdd
    <3> QED BY <1>6, <3>1, <3>2
  <2>6. \A f \in Features : Accurate(f, definitions[f])' <=> Accurate(f, definitions'[f])
    BY <1>0, <1>1 DEF Accurate, Defined
  <2> QED BY <1>0, <1>1, <1>3, <1>5, <2>4, <2>5, <2>6 DEF Current, FieldsCurrent
<1>7. CASE \/ OpenScan(t) \/ ScanMs(t) \/ EndScan(t)
           \/ ParseMs(t) \/ FindDn(t) \/ ParseDn(t)
  <2>1. \A u \in Threads : SearchCurrent(u)'
    BY <1>0, <1>3, <1>7, SearchCurrentStep
  <2>2. UNCHANGED definitions
    BY <1>7 DEF OpenScan, ScanMs, EndScan, ParseMs, FindDn, ParseDn, shared
  <2>3. \A f \in Features : Accurate(f, definitions[f])' <=> Accurate(f, definitions[f])
    BY <1>0, <1>1, <2>2 DEF Accurate, Defined
  <2> QED BY <1>0, <1>1, <1>3, <1>5, <2>1, <2>2, <2>3 DEF Current, FieldsCurrent
<1> QED BY <1>6, <1>7

\* The other steps of a call: no definition is looked for, nothing is stored.
LEMMA IdleCurrentStep ==
  ASSUME OneThread, IInv, Current, Calm, NEW t \in Threads,
         \/ ReturnGet(t) \/ FailAll(t) \/ EndAll(t)
         \/ OpenMs(t) \/ NextMs(t) \/ OpenDn(t) \/ NextDn(t) \/ Yield(t)
         \/ ExchangeStale(t)
         \/ (\E f \in Features : StartGet(t, f)) \/ StartAll(t)
  PROVE  Current'
<1> USE DEF IInv, TypeOK, CallTypes, CacheTypes
<1>0. /\ FieldsCurrent /\ \A u \in Threads : u = t
      /\ UNCHANGED <<configs, initialized, dnVer, msVer, definitions>>
  BY DEF Current, OneThread, ReturnGet, FailAll, EndAll, OpenMs, NextMs, OpenDn, NextDn,
         Yield, ExchangeStale, StartGet, StartAll, Enter, config, shared
<1>1. Latest' = Latest /\ Flags(configs[Latest])' = Flags(configs[Latest])
  BY <1>0 DEF Latest, Flags
<1>2. /\ pc'[t] \in {"idle", "init", "tryGet", "openMs", "nextMs", "nextDn"}
      /\ pc[t] \notin {"readDn", "storeDn", "readMs", "storeMs", "clear"}
  BY DEF Calm, ReturnGet, FailAll, EndAll, Leave, OpenMs, NextMs, OpenDn, NextDn,
         Yield, ExchangeStale, Body, StartGet, StartAll, Enter, Goto
<1>3. \A u \in Threads : StoringCurrent(u)' /\ SearchCurrent(u)'
  BY <1>0, <1>2 DEF StoringCurrent, SearchCurrent, SearchLabels, Answering
<1>4. \A f \in Features : Accurate(f, definitions[f])' <=> Accurate(f, definitions[f])
  BY <1>0, <1>1 DEF Accurate, Defined
<1>5. \A u \in Threads : ~Refreshing(u)
  BY <1>0, <1>2 DEF Refreshing
<1> QED BY <1>0, <1>1, <1>3, <1>4, <1>5 DEF Current, FieldsCurrent

\* Calm comes only with the exchange of a flag that is set, and the refresh it begins.
LEMMA CalmBegins ==
  ASSUME OneThread, IInv, ~Calm, Calm', [Next]_vars
  PROVE  Current'
<1> USE DEF IInv, TypeOK, CallTypes
<1>1. ASSUME NEW t \in Threads, ExchangeStale(t) PROVE Current'
  <2>1. pc'[t] = "readDn" /\ phase'[t] = "refresh"
    BY <1>1 DEF ExchangeStale, Goto, Calm, config, Latest
  <2>2. \A u \in Threads : u = t
    BY DEF OneThread
  <2>3. Refreshing(t)'
    BY <2>1 DEF Refreshing
  <2>4. StoringCurrent(t)' /\ SearchCurrent(t)'
    BY <2>1 DEF StoringCurrent, SearchCurrent, SearchLabels, Answering
  <2> QED BY <2>2, <2>3, <2>4 DEF Current, FieldsCurrent
<1>2. CASE Load \/ RaiseChanged
  <2>1. CASE Load
    <3>1. PICK c \in Configurations : configs' = Append(configs, c)
      BY <2>1 DEF Load
    <3>2. Len(configs') = Len(configs) + 1
      BY <3>1 DEF ConfigTypes
    <3> QED BY <2>1, <3>2, BoundAssumption DEF Load, Calm, Latest, ConfigTypes
  <2> QED BY <1>2, <2>1 DEF RaiseChanged, Calm
<1>3. CASE \/ UNCHANGED vars
           \/ \E t \in Threads : \/ Step(t) /\ ~ExchangeStale(t)
                                 \/ \E f \in Features : StartGet(t, f)
                                 \/ StartAll(t)
  <2>1. UNCHANGED <<configs, raised, stale>>
    <3>1. CASE UNCHANGED vars
      BY <3>1 DEF vars, config, shared
    <3>2. ASSUME NEW t \in Threads, Step(t), ~ExchangeStale(t)
          PROVE  UNCHANGED <<configs, raised, stale>>
      BY <3>2 DEF Step, EnsureInit, ReadSections, StoreDn, StoreMs, MarkInit, Clear, TryGet,
         OpenScan, ScanMs, EndScan, ParseMs, FindDn, ParseDn, TryAdd, ReturnGet, OpenMs,
         NextMs, OpenDn, NextDn, Yield, FailAll, EndAll, config, shared
    <3>3. ASSUME NEW t \in Threads, (\E f \in Features : StartGet(t, f)) \/ StartAll(t)
          PROVE  UNCHANGED <<configs, raised, stale>>
      BY <3>3 DEF StartGet, StartAll, Enter, config, shared
    <3> QED BY <1>3, <3>1, <3>2, <3>3
  <2> QED BY <2>1 DEF Calm, Latest
<1> QED BY <1>1, <1>2, <1>3 DEF Next

\* Current is preserved by every step while calls are made one at a time.
LEMMA CurrentStep ==
  ASSUME OneThread, IInv, Current, [Next]_vars
  PROVE  Current'
<1>1. CASE ~Calm
  BY <1>1, CalmBegins DEF Current
<1>2. CASE Calm
  <2>1. CASE Load \/ RaiseChanged
    <3>1. ~Calm'
      <4>1. CASE Load
        <5>1. PICK c \in Configurations : configs' = Append(configs, c)
          BY <4>1 DEF Load
        <5>2. Len(configs') = Len(configs) + 1
          BY <5>1 DEF IInv, TypeOK, ConfigTypes
        <5> QED BY <4>1, <5>2, BoundAssumption DEF Load, Calm, Latest, IInv, TypeOK, ConfigTypes
      <4> QED BY <2>1, <4>1 DEF RaiseChanged, Calm
    <3> QED BY <3>1 DEF Current
  <2>2. CASE UNCHANGED vars
    BY <2>2 DEF vars, config, shared, search, Current, Calm, FieldsCurrent, StoringCurrent,
       SearchCurrent, Refreshing, Answering, Accurate, Defined, Latest, Flags
  <2>3. ASSUME NEW t \in Threads,
               \/ Step(t)
               \/ (\E f \in Features : StartGet(t, f)) \/ StartAll(t)
        PROVE  Current'
    BY <1>2, <2>3, StoringCurrentStep, LookupCurrentStep, IdleCurrentStep DEF Step
  <2> QED BY <2>1, <2>2, <2>3 DEF Next
<1> QED BY <1>1, <1>2

\* Nothing is cached before the first call.
LEMMA CurrentInit == Init => Current
  BY DEF Init, Current, FieldsCurrent, StoringCurrent, SearchCurrent, SearchLabels, Answering

\* While calls are made one at a time, the definitions cached between them are those
\* of the configuration in force as soon as it has been notified and taken up. Two
\* calls that overlap are enough to break this: what one of them parsed before the
\* reload is added after the other has cleared the dictionary.
THEOREM LatestAlone == OneThread => (Spec => []LatestWhenIdle)
<1> SUFFICES ASSUME OneThread PROVE Spec => []LatestWhenIdle
  OBVIOUS
<1>1. IInv /\ Current /\ [Next]_vars => Current'
  BY CurrentStep
<1>2. Current => LatestWhenIdle
  BY DEF Current, Calm, FieldsCurrent, Refreshing, Accurate, LatestWhenIdle
<1> QED BY Inductive, CurrentInit, <1>1, <1>2, PTL DEF Spec

-----------------------------------------------------------------------------
(* What an enumeration has yielded so far, when no reload overlaps it.     *)

\* The names of the flags before position n, and all names.
Passed(n) ==
  {configs[Latest].ms[i] : i \in {j \in DOMAIN configs[Latest].ms : j < n}} \ {NoName}
AllNames == (Flags(configs[Latest]) \ {NoName}) \cup configs[Latest].dn

\* An enumeration that no reload has overlapped so far.
Undisturbed(t) == job[t] # "get" /\ began[t] = Latest

\* Before the first list is opened nothing has been yielded.
BeforeListing(t) == pc[t] \notin LookupLabels \cup {"nextMs", "nextDn"}

\* It has found _stale as the last reload left it, and reset it.
Exchanged(t) ==
  ~BeforeListing(t) \/ pc[t] \in {"clear", "openMs"} \/ Refreshing(t)

\* It has yielded, with the name it is looking up, what it has passed of its lists.
Progress(t) ==
  /\ pc[t] = "nextMs" => /\ list[t] = Latest /\ next[t] >= 1
                         /\ listed[t] = Passed(next[t])
  /\ pc[t] \in LookupLabels /\ job[t] = "ms" =>
       /\ list[t] = Latest /\ next[t] >= 1
       /\ feature[t] \in Defined
       /\ listed[t] \cup {feature[t]} = Passed(next[t])
  /\ pc[t] = "nextDn" => /\ dnLeft[t] \subseteq configs[Latest].dn
                         /\ listed[t] \cup dnLeft[t] = AllNames
  /\ pc[t] \in LookupLabels /\ job[t] = "dn" =>
       /\ dnLeft[t] \subseteq configs[Latest].dn
       /\ feature[t] \in Defined
       /\ listed[t] \cup {feature[t]} \cup dnLeft[t] = AllNames

Enumeration(t) ==
  /\ began[t] <= Latest
  /\ pc[t] = "idle" => job[t] = "get"
  /\ pc[t] \in {"openMs", "nextMs"} => job[t] = "ms"
  /\ BeforeListing(t) => listed[t] = {} /\ job[t] # "dn"
  /\ Undisturbed(t) =>
       /\ raised = Latest
       /\ Exchanged(t) => ~stale
       /\ Progress(t)

Enumerations == \A t \in Threads : Enumeration(t)

\* The positions passed, one at a time.
LEMMA PassedOne ==
  ASSUME IInv, NEW n \in Nat
  PROVE  /\ Passed(1) = {}
         /\ n \in DOMAIN configs[Latest].ms =>
              Passed(n + 1) = Passed(n) \cup ({configs[Latest].ms[n]} \ {NoName})
         /\ n \notin DOMAIN configs[Latest].ms /\ n >= 1 =>
              Passed(n) = Flags(configs[Latest]) \ {NoName}
<1>1. configs[Latest].ms \in Seq(Features \cup {NoName})
  <2>1. Latest \in 1..Latest
    BY BoundAssumption DEF IInv, TypeOK, ConfigTypes, Latest
  <2> QED BY <2>1, Content DEF IInv, TypeOK
<1> PICK ms \in Seq(Features \cup {NoName}) : ms = configs[Latest].ms
  BY <1>1
<1>2. DOMAIN ms = 1..Len(ms) /\ Len(ms) \in Nat
  OBVIOUS
<1>3. \A j \in DOMAIN ms : ~(j < 1)
  BY <1>2
<1>4. n \in DOMAIN ms => \A j \in DOMAIN ms : j < n + 1 <=> j < n \/ j = n
  BY <1>2
<1>5. n \notin DOMAIN ms /\ n >= 1 => \A j \in DOMAIN ms : j < n
  BY <1>2
<1>6. n \in DOMAIN ms => ~(n < n)
  BY <1>2
<1> QED BY <1>3, <1>4, <1>5, <1>6 DEF Passed, Flags

\* A step of the call in progress that no reload disturbs: what it has yielded.
LEMMA ProgressStep ==
  ASSUME OneThread, IInv, Current, NEW t \in Threads, Enumeration(t), Undisturbed(t), Step(t),
         pc[t] \in LookupLabels \cup {"openMs", "nextMs", "nextDn"}
  PROVE  Undisturbed(t)' => ~stale' /\ raised' = Latest' /\ ~Refreshing(t)' /\ Progress(t)'
<1> USE DEF IInv, TypeOK, CallTypes, ListTypes
<1>1. raised = Latest /\ ~stale /\ Progress(t) /\ Calm
  BY DEF Enumeration, Exchanged, BeforeListing, Calm
<1>2. Latest \in 1..Latest /\ Latest \in DOMAIN configs
  BY BoundAssumption DEF ConfigTypes, Latest
<1>3. UNCHANGED configs /\ UNCHANGED raised /\ UNCHANGED stale
  BY <1>1 DEF Step, LookupLabels, EnsureInit, ReadSections, StoreDn, StoreMs, MarkInit,
     ExchangeStale, Clear, TryGet,
     OpenScan, ScanMs, EndScan, ParseMs, FindDn, ParseDn, TryAdd, ReturnGet, OpenMs,
     NextMs, OpenDn, NextDn, Yield, FailAll, EndAll, config, shared
<1>4. /\ Latest' = Latest /\ Flags(configs[Latest])' = Flags(configs[Latest])
      /\ Defined' = Defined /\ AllNames' = AllNames
      /\ \A n : Passed(n)' = Passed(n)
  BY <1>3 DEF Latest, Flags, Defined, AllNames, Passed
<1> DEFINE ms == configs[Latest].ms
<1>5. ms \in Seq(Features \cup {NoName}) /\ configs[Latest].dn \subseteq Features
  BY <1>2, Content
<1>6. initialized /\ dnVer = Latest /\ msVer = Latest
  BY <1>1, \A u \in Threads : u = t
     DEF OneThread, LookupLabels, Current, FieldsCurrent, Refreshing, InitOrder, InitLabels
<1>7. CASE OpenMs(t)
  <2>1. /\ pc'[t] = "nextMs" /\ list'[t] = Latest /\ next'[t] = 1 /\ listed'[t] = {}
    BY <1>6, <1>7 DEF OpenMs, Goto, Enumeration, BeforeListing, LookupLabels
  <2>2. Passed(1) = {}
    BY PassedOne
  <2> QED BY <1>1, <1>3, <1>4, <2>1, <2>2 DEF Progress, LookupLabels, Refreshing
<1>8. CASE NextMs(t)
  <2>1. /\ pc[t] = "nextMs" /\ list'[t] = Latest /\ next[t] \in Nat /\ next[t] >= 1
        /\ next[t] <= Len(ms) /\ next'[t] = next[t] + 1
        /\ listed'[t] = listed[t] /\ listed[t] = Passed(next[t]) /\ job'[t] = "ms"
    BY <1>1, <1>8 DEF NextMs, Progress, Enumeration
  <2>2. next[t] \in DOMAIN ms
    BY <1>5, <2>1
  <2>3. IdAt(list[t], next[t]) = ms[next[t]]
    BY <1>1, <2>1, <2>2 DEF IdAt, Live, Progress
  <2>4. Passed(next[t] + 1) = Passed(next[t]) \cup ({ms[next[t]]} \ {NoName})
    BY <2>1, <2>2, PassedOne
  <2>5. CASE ms[next[t]] = NoName
    <3>1. pc'[t] = "nextMs"
      BY <1>8, <2>3, <2>5 DEF NextMs
    <3> QED BY <1>1, <1>3, <1>4, <2>1, <2>4, <2>5, <3>1 DEF Progress, LookupLabels, Refreshing
  <2>6. CASE ms[next[t]] # NoName
    <3>1. pc'[t] = "tryGet" /\ feature'[t] = ms[next[t]]
      BY <1>8, <2>3, <2>6 DEF NextMs, Goto
    <3>2. ms[next[t]] \in Defined
      BY <2>2 DEF Defined, Flags
    <3> QED
      BY <1>1, <1>3, <1>4, <2>1, <2>4, <2>6, <3>1, <3>2 DEF Progress, LookupLabels, Refreshing
  <2> QED BY <2>5, <2>6
<1>9. CASE OpenDn(t)
  <2>1. /\ pc[t] = "nextMs" /\ next[t] \in Nat /\ next[t] >= 1 /\ next[t] > Len(ms)
        /\ listed'[t] = listed[t] /\ listed[t] = Passed(next[t])
        /\ dnLeft'[t] = configs[Latest].dn /\ pc'[t] = "nextDn" /\ job'[t] = "dn"
    BY <1>1, <1>6, <1>9 DEF OpenDn, Progress, Goto
  <2>2. next[t] \notin DOMAIN ms
    BY <1>5, <2>1
  <2>3. Passed(next[t]) = Flags(configs[Latest]) \ {NoName}
    BY <2>1, <2>2, PassedOne
  <2> QED
    BY <1>1, <1>3, <1>4, <2>1, <2>3 DEF Progress, LookupLabels, Refreshing, AllNames
<1>10. CASE NextDn(t)
  <2>1. PICK f \in dnLeft[t] : /\ feature' = [feature EXCEPT ![t] = f]
                               /\ dnLeft' = [dnLeft EXCEPT ![t] = dnLeft[t] \ {f}]
    BY <1>10 DEF NextDn
  <2>2. /\ pc[t] = "nextDn" /\ pc'[t] = "tryGet" /\ listed'[t] = listed[t]
        /\ job'[t] = job[t] /\ job[t] = "dn"
    BY <1>10, <1>1 DEF NextDn, Goto, SearchOK, LookupLabels
  <2>3. f \in Defined
    BY <1>1, <2>1, <2>2 DEF Progress, Defined
  <2> QED
    BY <1>1, <1>3, <1>4, <2>1, <2>2, <2>3 DEF Progress, LookupLabels, Refreshing
<1>11. CASE Yield(t)
  <2>1. Accurate(feature[t], draft[t])
    BY <1>1, <1>11 DEF Yield, Current, SearchCurrent, Answering
  <2>2. pc[t] = "return" /\ job[t] \in {"ms", "dn"} /\ feature[t] \in Defined
    BY <1>1, <1>11 DEF Yield, Progress, LookupLabels
  <2>3. listed'[t] = listed[t] \cup {feature[t]}
    BY <1>11, <2>1, <2>2 DEF Yield, Accurate
  <2>4. /\ pc'[t] = IF job[t] = "ms" THEN "nextMs" ELSE "nextDn"
        /\ list'[t] = list[t] /\ next'[t] = next[t] /\ dnLeft'[t] = dnLeft[t]
        /\ job'[t] = job[t]
    BY <1>11 DEF Yield, Goto
  <2> QED
    BY <1>1, <1>3, <1>4, <2>2, <2>3, <2>4 DEF Progress, LookupLabels, Refreshing
<1>12. CASE \/ TryGet(t) \/ TryAdd(t) \/ OpenScan(t) \/ ScanMs(t) \/ EndScan(t)
            \/ ParseMs(t) \/ FindDn(t) \/ ParseDn(t)
  <2>1. /\ pc[t] \in LookupLabels /\ pc'[t] \in LookupLabels
        /\ UNCHANGED <<list, next, dnLeft, listed, feature, job>>
    BY <1>12 DEF TryGet, TryAdd, OpenScan, ScanMs, EndScan, ParseMs, FindDn, ParseDn, Parsed,
       Goto, LookupLabels, listing
  <2> QED BY <1>1, <1>3, <1>4, <2>1 DEF Progress, LookupLabels, Refreshing
<1>13. CASE ReturnGet(t) \/ FailAll(t) \/ EndAll(t)
  <2>1. job'[t] = "get"
    BY <1>13 DEF ReturnGet, FailAll, EndAll, Leave
  <2> QED BY <2>1 DEF Undisturbed
<1>14. \/ OpenMs(t) \/ NextMs(t) \/ OpenDn(t) \/ NextDn(t) \/ Yield(t)
       \/ TryGet(t) \/ TryAdd(t) \/ OpenScan(t) \/ ScanMs(t) \/ EndScan(t)
       \/ ParseMs(t) \/ FindDn(t) \/ ParseDn(t)
       \/ ReturnGet(t) \/ FailAll(t) \/ EndAll(t)
  BY DEF Step, LookupLabels, EnsureInit, ReadSections, StoreDn, StoreMs, MarkInit,
     ExchangeStale, Clear
<1> QED BY <1>7, <1>8, <1>9, <1>10, <1>11, <1>12, <1>13, <1>14

\* A step before the first list is opened: nothing is yielded.
LEMMA BeforeListingStep ==
  ASSUME IInv, NEW t \in Threads, Enumeration(t),
         \/ EnsureInit(t) \/ ReadSections(t) \/ StoreDn(t) \/ StoreMs(t)
         \/ MarkInit(t) \/ ExchangeStale(t) \/ Clear(t)
         \/ (\E f \in Features : StartGet(t, f)) \/ StartAll(t)
  PROVE  Enumeration(t)'
<1> USE DEF IInv, TypeOK, CallTypes, ListTypes
<1>1. /\ UNCHANGED <<configs, raised, listed>> /\ Latest' = Latest
      /\ BeforeListing(t) /\ listed[t] = {} /\ job[t] # "dn"
  BY DEF EnsureInit, ReadSections, StoreDn, StoreMs, MarkInit, ExchangeStale, Clear, StartGet,
     StartAll, Enter, config, listing, BeforeListing, LookupLabels, Enumeration, Latest
<1>2. job'[t] # "get" =>
        pc'[t] \notin LookupLabels \cup {"nextMs", "nextDn", "idle"}
  BY <1>1 DEF EnsureInit, ReadSections, StoreDn, StoreMs, MarkInit, ExchangeStale, Clear,
     StartGet, StartAll, Enter, Goto, Body, LookupLabels, Enumeration
<1>3. job'[t] \in {"get", "ms"} /\ (job'[t] = "get" => pc'[t] \notin {"openMs", "nextMs", "nextDn"})
  BY <1>1 DEF EnsureInit, ReadSections, StoreDn, StoreMs, MarkInit, ExchangeStale, Clear,
     StartGet, StartAll, Enter, Goto, Body, Enumeration
<1>4. pc'[t] # "nextDn" /\ pc'[t] # "idle"
  BY DEF EnsureInit, ReadSections, StoreDn, StoreMs, MarkInit, ExchangeStale, Clear,
     StartGet, StartAll, Enter, Goto, Body
<1>5. CASE (\E f \in Features : StartGet(t, f)) \/ StartAll(t)
  <2>1. /\ pc'[t] = "init" /\ listed'[t] = {} /\ Latest \in Nat
        /\ began'[t] = began[t] \/ began'[t] = 0 \/ (began'[t] = Latest /\ raised = Latest)
        /\ job[t] = "get"
    BY <1>1, <1>5 DEF StartGet, StartAll, Enter, Goto, Enumeration, Latest, ConfigTypes
  <2>2. began'[t] <= Latest
    BY <2>1 DEF Enumeration
  <2>3. job'[t] # "get" /\ began'[t] = Latest => raised = Latest
    <3>1. CASE StartAll(t)
      BY <3>1, <2>1, BoundAssumption DEF StartAll, ConfigTypes, Latest
    <3>2. CASE \E f \in Features : StartGet(t, f)
      BY <3>2, <2>1 DEF StartGet
    <3> QED BY <1>5, <3>1, <3>2
  <2> QED
    BY <1>1, <1>3, <2>1, <2>2, <2>3
       DEF Enumeration, Exchanged, BeforeListing, LookupLabels, Undisturbed, Refreshing, Progress
<1>6. CASE \/ EnsureInit(t) \/ ReadSections(t) \/ StoreDn(t) \/ StoreMs(t)
           \/ MarkInit(t) \/ ExchangeStale(t) \/ Clear(t)
  <2>1. UNCHANGED <<began, job, listed>>
    BY <1>6 DEF EnsureInit, ReadSections, StoreDn, StoreMs, MarkInit, ExchangeStale, Clear,
       listing
  <2>2. Undisturbed(t)' => Undisturbed(t) /\ raised' = Latest'
    BY <1>1, <2>1 DEF Undisturbed, Enumeration
  <2>3. Undisturbed(t)' /\ (pc'[t] \in {"clear", "openMs"} \/ Refreshing(t)') => ~stale'
    <3>1. CASE ExchangeStale(t)
      BY <3>1 DEF ExchangeStale
    <3>2. CASE EnsureInit(t)
      BY <3>2 DEF EnsureInit, Refreshing, Goto
    <3>3. CASE \/ ReadSections(t) \/ StoreDn(t) \/ StoreMs(t) \/ MarkInit(t) \/ Clear(t)
      <4>1. UNCHANGED <<stale, phase>>
        BY <3>3 DEF ReadSections, StoreDn, StoreMs, MarkInit, Clear, shared
      <4>2. pc'[t] \in {"clear", "openMs"} \/ Refreshing(t)' =>
              pc[t] = "clear" \/ Refreshing(t)
        BY <3>3, <4>1
           DEF ReadSections, StoreDn, StoreMs, MarkInit, Clear, Goto, Refreshing, InitOrder,
               InitLabels
      <4> QED BY <2>2, <4>1, <4>2 DEF Enumeration, Exchanged
    <3> QED BY <1>6, <3>1, <3>2, <3>3
  <2> QED
    BY <1>1, <1>2, <1>3, <1>4, <2>1, <2>2, <2>3
       DEF Enumeration, Exchanged, BeforeListing, LookupLabels, Undisturbed, Progress
<1> QED BY <1>5, <1>6

\* Enumeration is preserved by every step while calls are made one at a time.
LEMMA EnumerationStep ==
  ASSUME OneThread, IInv, Current, \A t \in Threads : Enumeration(t), [Next]_vars
  PROVE  \A t \in Threads : Enumeration(t)'
<1> USE DEF IInv, TypeOK, CallTypes, ListTypes
<1>1. CASE Load
  <2>1. PICK c \in Configurations : configs' = Append(configs, c)
    BY <1>1 DEF Load
  <2>2. Latest' = Latest + 1 /\ Latest \in Nat
    BY <2>1 DEF ConfigTypes, Latest
  <2>3. UNCHANGED <<pc, job, phase, listed, began>>
    BY <1>1 DEF Load, listing
  <2>4. \A t \in Threads : began[t] \in Nat /\ began[t] <= Latest
    BY BoundAssumption DEF Enumeration, Version
  <2>5. \A t \in Threads : ~Undisturbed(t)' /\ began'[t] <= Latest'
    BY <2>2, <2>3, <2>4 DEF Undisturbed
  <2> QED BY <2>3, <2>5 DEF Enumeration, BeforeListing
<1>2. CASE RaiseChanged
  <2>1. \A t \in Threads : ~Undisturbed(t)
    BY <1>2, BoundAssumption DEF RaiseChanged, Enumeration, ConfigTypes, Latest
  <2>2. UNCHANGED <<configs, pc, job, phase, listed, began>>
    BY <1>2 DEF RaiseChanged, listing
  <2> QED BY <2>1, <2>2 DEF Enumeration, Undisturbed, BeforeListing, Latest
<1>3. CASE UNCHANGED vars
  <2>1. UNCHANGED <<configs, raised, stale, pc, job, phase, feature, list, next, dnLeft, listed,
                    began>>
    BY <1>3 DEF vars, config, shared, listing
  <2>2. /\ Latest' = Latest /\ Defined' = Defined /\ AllNames' = AllNames
        /\ \A n : Passed(n)' = Passed(n)
    BY <2>1 DEF Latest, Flags, Defined, AllNames, Passed
  <2>3. ASSUME NEW t \in Threads
        PROVE  Enumeration(t)' <=> Enumeration(t)
    <3>1. /\ Progress(t)' <=> Progress(t)
          /\ BeforeListing(t)' <=> BeforeListing(t)
          /\ Refreshing(t)' <=> Refreshing(t)
          /\ Undisturbed(t)' <=> Undisturbed(t)
      BY <2>1, <2>2 DEF Undisturbed, BeforeListing, Progress, Refreshing
    <3> QED BY <2>1, <2>2, <3>1 DEF Enumeration, Exchanged
  <2> QED BY <2>3
<1>4. ASSUME NEW t \in Threads,
             \/ EnsureInit(t) \/ ReadSections(t) \/ StoreDn(t) \/ StoreMs(t)
             \/ MarkInit(t) \/ ExchangeStale(t) \/ Clear(t)
             \/ (\E f \in Features : StartGet(t, f)) \/ StartAll(t)
      PROVE  \A u \in Threads : Enumeration(u)'
  BY <1>4, BeforeListingStep DEF OneThread
<1>5. ASSUME NEW t \in Threads,
             \/ OpenMs(t) \/ NextMs(t) \/ OpenDn(t) \/ NextDn(t) \/ Yield(t)
             \/ TryGet(t) \/ TryAdd(t) \/ OpenScan(t) \/ ScanMs(t) \/ EndScan(t)
             \/ ParseMs(t) \/ FindDn(t) \/ ParseDn(t)
      PROVE  \A u \in Threads : Enumeration(u)'
  <2>1. /\ UNCHANGED <<configs, raised, began>> /\ Latest' = Latest /\ Enumeration(t)
        /\ \A u \in Threads : u = t
    BY <1>5 DEF OneThread, OpenMs, NextMs, OpenDn, NextDn, Yield, TryGet, TryAdd, OpenScan,
       ScanMs, EndScan, ParseMs, FindDn, ParseDn, config, listing, Latest
  <2>2. /\ pc[t] \in LookupLabels \cup {"openMs", "nextMs", "nextDn"}
        /\ pc'[t] \in LookupLabels \cup {"nextMs", "nextDn"}
        /\ pc'[t] = "nextMs" => job'[t] = "ms"
        /\ job'[t] = "get" <=> job[t] = "get"
    BY <1>5, <2>1 DEF OpenMs, NextMs, OpenDn, NextDn, Yield, TryGet, TryAdd, OpenScan,
       ScanMs, EndScan, ParseMs, FindDn, ParseDn, Parsed, Goto, LookupLabels, Enumeration,
       SearchOK
  <2>3. Undisturbed(t)' => Undisturbed(t)
    BY <2>1, <2>2 DEF Undisturbed
  <2>4. Step(t)
    BY <1>5 DEF Step
  <2>5. Undisturbed(t)' => ~stale' /\ raised' = Latest' /\ ~Refreshing(t)' /\ Progress(t)'
    BY <2>1, <2>2, <2>3, <2>4, ProgressStep
  <2>6. Enumeration(t)'
    BY <2>1, <2>2, <2>5 DEF Enumeration, Exchanged, BeforeListing, LookupLabels
  <2> QED BY <2>1, <2>6
<1>6. ASSUME NEW t \in Threads, ReturnGet(t) \/ FailAll(t) \/ EndAll(t)
      PROVE  \A u \in Threads : Enumeration(u)'
  <2>1. /\ pc'[t] = "idle" /\ job'[t] = "get" /\ listed'[t] = {} /\ began'[t] = 0
        /\ UNCHANGED configs
    BY <1>6 DEF ReturnGet, FailAll, EndAll, Leave, Goto, config
  <2>2. 0 <= Latest'
    BY <2>1 DEF ConfigTypes, Latest
  <2>3. Enumeration(t)'
    BY <2>1, <2>2 DEF Enumeration, Undisturbed, BeforeListing, LookupLabels
  <2> QED BY <2>3 DEF OneThread
<1> QED BY <1>1, <1>2, <1>3, <1>4, <1>5, <1>6 DEF Next, Step

\* While calls are made one at a time, an enumeration that begins with every reload
\* notified and that no reload overlaps yields exactly the names the configuration
\* defines, in either schema, whatever was cached before and wherever a name is listed
\* twice; one that overlaps another call's refresh may miss some.
THEOREM EverythingListed == OneThread => (Spec => []ListsEverything)
<1> SUFFICES ASSUME OneThread PROVE Spec => []ListsEverything
  OBVIOUS
<1>1. Init => Enumerations
  BY DEF Init, Enumerations, Enumeration, Undisturbed, BeforeListing, LookupLabels, Latest
<1>2. IInv /\ Current /\ Enumerations /\ [Next]_vars => Enumerations'
  BY EnumerationStep DEF Enumerations
<1>3. IInv /\ Enumerations => ListsEverything
  <2> SUFFICES ASSUME IInv, Enumerations, NEW t \in Threads,
                      pc[t] = "nextDn", dnLeft[t] = {}, began[t] = Latest
               PROVE  listed[t] = AllNames
    BY DEF ListsEverything, AllNames
  <2>1. job[t] = "dn"
    BY DEF IInv, SearchOK
  <2> QED BY <2>1 DEF Enumerations, Enumeration, Undisturbed, Progress
<1>4. IInv /\ Current /\ [Next]_vars => Current'
  BY CurrentStep
<1> QED BY Inductive, CurrentInit, <1>1, <1>2, <1>3, <1>4, PTL DEF Spec

=============================================================================
