----------------------------- MODULE MediaRules -----------------------------
(***************************************************************************)
(* internal/library/media_type_rules.go: which files a library takes for   *)
(* media.  The built-in suffixes are fixed in the code; rows of            *)
(* media_type_rules, for the whole space or for one library, switch them   *)
(* off and on again and add suffixes.  The scan, uploads, thumbnails and   *)
(* the summary ask Policy, which folds the rows into a map and gives a     *)
(* suffix one type; the filter of a listing asks for the suffixes that are *)
(* on for a type, so that a suffix on for two types is listed under both.  *)
(*                                                                         *)
(* A type is a number in the alphabetical order the code sorts by ("image" *)
(* before "video").  Every suffix has at most one built-in type.           *)
(***************************************************************************)
EXTENDS Integers, Folds

CONSTANTS RuleLibraries, \* library ids, positive
          RuleTypes,     \* media types, positive, in the order of their names
          Extensions,
          BuiltinType,   \* a type that has a built-in suffix
          BuiltinSuffix, \* builtInMediaExtensions: the suffix of that type
          ImageType, VideoType,
          RuleClients,   \* requests in progress at a time
          MaxRules       \* bound: rows ever created

ASSUME MediaRulesAssumption ==
  /\ RuleLibraries \subseteq Nat \ {0} /\ RuleTypes \subseteq Nat \ {0}
  /\ BuiltinType \in RuleTypes /\ BuiltinSuffix \in Extensions /\ MaxRules \in Nat
  /\ ImageType \in RuleTypes /\ VideoType \in RuleTypes

VARIABLES rules,    \* rows of media_type_rules
          libraries, \* rows of library_paths
          ruleCount, \* ids given (AUTOINCREMENT)
          asking    \* what a request has checked and is about to write

ruleVars == <<rules, libraries, ruleCount, asking>>

Everywhere == -1        \* library_id IS NULL
NoType == 0
Quiet == [does |-> "nothing"]

Scopes == {Everywhere, 0} \cup RuleLibraries

Builtin(type, suffix) == type = BuiltinType /\ suffix = BuiltinSuffix

-----------------------------------------------------------------------------
(* Reading: resolveMediaTypeRules and mediaExtensionPolicyInSpace. *)

\* ORDER BY library_id IS NOT NULL, id.
ListsBefore_ById(r, s) == r.id < s.id
ListsBefore(r, s) ==
  \/ r.scope = Everywhere /\ s.scope # Everywhere
  \/ (r.scope = Everywhere) = (s.scope = Everywhere) /\ r.id < s.id

ListBySpace(l) == {r \in rules : r.scope \in {Everywhere, l}}
LastListed(listed) == CHOOSE r \in listed : \A s \in listed \ {r} : ListsBefore(s, r)

BuiltinMap == [k \in RuleTypes \X Extensions |-> IF Builtin(k[1], k[2]) THEN "on" ELSE "none"]

Applied(map, r) == [map EXCEPT ![<<r.type, r.suffix>>] = IF r.enabled THEN "on" ELSE "off"]

\* One listed rule after another is put over what the code says.
Resolved(l) ==
  MapThenFoldSet(LAMBDA r, map : Applied(map, r), BuiltinMap, LAMBDA r : r,
                 LastListed, ListBySpace(l))

\* The rules sorted by type and suffix; the last rule of a suffix gives its type.
SwitchedOn(map) == {k \in DOMAIN map : map[k] = "on"}
LastSorted(keys) == CHOOSE k \in keys : \A j \in keys : j[1] <= k[1]
Named(policy, k) == [policy EXCEPT ![k[2]] = k[1]]
Unnamed == [x \in Extensions |-> NoType]

Policy(l) ==
  MapThenFoldSet(LAMBDA k, policy : Named(policy, k), Unnamed, LAMBDA k : k,
                 LastSorted, SwitchedOn(Resolved(l)))

\* EnabledExtensionsForType, which ListMediaFilesPage filters by.  Where nothing is
\* on for a type the filter falls back to what the code says of images.
EnabledExtensions_AnyType(l, type) == {k[2] : k \in SwitchedOn(Resolved(l))}
EnabledExtensions(l, type) == {x \in Extensions : <<type, x>> \in SwitchedOn(Resolved(l))}

Listed(l, type, suffix) ==
  IF EnabledExtensions(l, type) # {} THEN suffix \in EnabledExtensions(l, type)
  ELSE /\ type = ImageType => Builtin(ImageType, suffix)
       /\ type = VideoType => ~Builtin(ImageType, suffix)

-----------------------------------------------------------------------------

RulesInit ==
  /\ rules = {} /\ libraries = RuleLibraries /\ ruleCount = 0
  /\ asking = [c \in RuleClients |-> Quiet]

Asks(c, what) == /\ asking[c] = Quiet /\ asking' = [asking EXCEPT ![c] = what]
                 /\ UNCHANGED <<rules, libraries, ruleCount>>

Answered(c) == asking' = [asking EXCEPT ![c] = Quiet]

\* validateMediaRuleLibrary looks only for libraries with a positive id.
LibraryFits(scope) == scope \in RuleLibraries => scope \in libraries

\* `enabled` defaults to true when the request leaves it out.
Default(enabled) == IF enabled = "unset" THEN TRUE ELSE enabled = "on"

Upsert(scope, type, suffix, enabled) ==
  [does |-> "upsert", scope |-> scope, type |-> type, suffix |-> suffix, enabled |-> enabled]

\* Which types a suffix of a new rule may have.
TypeFits_Any(type, suffix) == TRUE
TypeFits(type, suffix) == suffix = BuiltinSuffix => type = BuiltinType

\* CreateMediaTypeRuleInSpace; a built-in suffix with nothing said about it is not stored.
AskCreate(c) ==
  \E scope \in Scopes, type \in RuleTypes, suffix \in Extensions, enabled \in {"on", "off", "unset"} :
    /\ TypeFits(type, suffix) /\ LibraryFits(scope)
    /\ ~(Builtin(type, suffix) /\ enabled = "unset")
    /\ Asks(c, Upsert(scope, type, suffix, Default(enabled)))

\* UpdateMediaTypeRuleInSpace with the id of a built-in rule, also only to relabel it.
AskBuiltin(c) ==
  \E scope \in Scopes, enabled \in {"on", "off", "unset"} :
    /\ LibraryFits(scope)
    /\ Asks(c, Upsert(scope, BuiltinType, BuiltinSuffix, Default(enabled)))

\* AddMediaExtensionInSpace: a built-in suffix is accepted and nothing is done.
AskExtension(c) ==
  \E l \in libraries, type \in RuleTypes, suffix \in Extensions \ {BuiltinSuffix} :
    Asks(c, Upsert(l, type, suffix, TRUE))

\* FindByKeyTx: no library, or one that is not positive, is the whole space.
SameKey(r, asked) ==
  /\ r.type = asked.type /\ r.suffix = asked.suffix
  /\ r.scope = IF asked.scope \in RuleLibraries THEN asked.scope ELSE Everywhere

\* The unique indexes over the library and over the space.
Collides(asked) ==
  \E r \in rules : /\ r.type = asked.type /\ r.suffix = asked.suffix /\ r.scope = asked.scope

\* upsertMediaTypeRule in one transaction; the row keeps its library.
UpsertRule(c) ==
  LET asked == asking[c]
      found == {r \in rules : SameKey(r, asked)}
      fresh == [id |-> ruleCount + 1, scope |-> asked.scope, type |-> asked.type,
                suffix |-> asked.suffix, enabled |-> asked.enabled]
  IN  /\ asked.does = "upsert" /\ Answered(c) /\ UNCHANGED libraries
      /\ \/ \E r \in found : /\ rules' = (rules \ {r}) \cup {[r EXCEPT !.enabled = asked.enabled]}
                             /\ UNCHANGED ruleCount
         \/ /\ found = {} /\ ~Collides(asked) /\ ruleCount < MaxRules
            /\ rules' = rules \cup {fresh} /\ ruleCount' = ruleCount + 1
         \/ /\ found = {} /\ Collides(asked) /\ UNCHANGED <<rules, ruleCount>>

\* updatePersistedMediaTypeRule by the number of the row.
UpdateRule ==
  \E r \in rules, enabled \in BOOLEAN :
    /\ rules' = (rules \ {r}) \cup {[r EXCEPT !.enabled = enabled]}
    /\ UNCHANGED <<libraries, ruleCount, asking>>

\* DeleteMediaTypeRuleInSpace refuses what is stored of a built-in rule.
Deletable(r) == ~Builtin(r.type, r.suffix)

AskDelete(c) == \E r \in rules : Asks(c, [does |-> "delete", id |-> r.id])

\* DeleteMediaExtensionInSpace takes the first rule of that library and suffix.
OwnRule(l, suffix, r) ==
  /\ r \in rules /\ r.scope = l /\ r.suffix = suffix
  /\ \A s \in rules : s.scope = l /\ s.suffix = suffix => r.type <= s.type

AskDeleteExtension(c) ==
  \E l \in libraries, suffix \in Extensions \ {BuiltinSuffix} :
    \E r \in rules : OwnRule(l, suffix, r) /\ Asks(c, [does |-> "delete", id |-> r.id])

DeleteRule(c) ==
  /\ asking[c].does = "delete" /\ Answered(c)
  /\ rules' = {r \in rules : r.id = asking[c].id => ~Deletable(r)}
  /\ UNCHANGED <<libraries, ruleCount>>

\* deleteLibraryPathInSpaceOnce leaves the rules of the library behind.
DeleteLibrary ==
  \E l \in libraries : /\ libraries' = libraries \ {l}
                       /\ UNCHANGED <<rules, ruleCount, asking>>

RulesNext ==
  \/ \E c \in RuleClients : \/ AskCreate(c) \/ AskBuiltin(c) \/ AskExtension(c) \/ UpsertRule(c)
                            \/ AskDelete(c) \/ AskDeleteExtension(c) \/ DeleteRule(c)
  \/ UpdateRule \/ DeleteLibrary

RulesSpec == RulesInit /\ [][RulesNext]_ruleVars

-----------------------------------------------------------------------------

RuleRow == [id : 1..MaxRules, scope : Scopes, type : RuleTypes, suffix : Extensions, enabled : BOOLEAN]

\* Every row has an id of its own.
MediaRulesTypeOK ==
  /\ rules \subseteq RuleRow /\ libraries \subseteq RuleLibraries /\ ruleCount \in 0..MaxRules
  /\ \A r, s \in rules : r.id = s.id => r = s
  /\ asking \in [RuleClients ->
       {Quiet} \cup [does : {"delete"}, id : 1..MaxRules]
               \cup [does : {"upsert"}, scope : Scopes, type : RuleTypes,
                     suffix : Extensions, enabled : BOOLEAN]]

\* What decides about one type of a suffix: the row of the library, else the
\* row of the space, else the code.
Decides(l, type, suffix) ==
  LET of(scope) == {r \in rules : r.scope = scope /\ r.type = type /\ r.suffix = suffix}
  IN  IF of(l) # {} THEN \A r \in of(l) : r.enabled
      ELSE IF of(Everywhere) # {} THEN \A r \in of(Everywhere) : r.enabled
      ELSE Builtin(type, suffix)

\* The fold over the sorted rows gives a suffix the last of the types that are
\* switched on for it, the rows of the library before those of the space.
PolicyIsLast ==
  \A l \in libraries : \A x \in Extensions :
    LET on == {y \in RuleTypes : Decides(l, y, x)}
    IN  IF on = {} THEN Policy(l)[x] = NoType
        ELSE Policy(l)[x] \in on /\ \A y \in on : y <= Policy(l)[x]

\* What a scan takes into a library as one type is listed there under that type,
\* and a listing that names a type shows only suffixes decided to be of it, if
\* any is.  It need not be the type the scan took.
ListingFits ==
  \A l \in libraries, x \in Extensions, y \in RuleTypes :
    /\ Policy(l)[x] = y => Listed(l, y, x)
    /\ Listed(l, y, x) => Decides(l, y, x) \/ EnabledExtensions(l, y) = {}

\* The two ways to read the rows go by the same decisions.
PolicyFits == PolicyIsLast /\ ListingFits

\* No sequence of requests through the two sets of endpoints leaves two rows
\* for one scope, type and suffix, of which only one would ever be updated.
OneRowPerKey ==
  \A r, s \in rules : r.scope = s.scope /\ r.type = s.type /\ r.suffix = s.suffix => r = s

\* A built-in suffix is never media of a second type, so that switching it off
\* leaves the file out of the scan.
BuiltinKeepsType ==
  \A r \in rules : r.suffix = BuiltinSuffix => r.type = BuiltinType

MediaRulesSafe == OneRowPerKey /\ BuiltinKeepsType
=============================================================================
