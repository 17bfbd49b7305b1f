-------------------------- MODULE PermissionMatcher -------------------------
(***************************************************************************)
(* A permission check in the proxy: HasPermission asks casbin, whose       *)
(* matcher (permissions_model.conf) calls the two functions of             *)
(* permissions/custom_functions.go for each rule, and whose effect is      *)
(* "some rule allows and none denies".                                     *)
(*                                                                         *)
(* A logic is the text of a govaluate expression: here one test, two tests *)
(* joined by && or ||, or a value that is no Boolean; comparisons of whole *)
(* maps are left out.  Casbin and govaluate are not part of the            *)
(* repository.  Casbin compares the text of the effect with those it       *)
(* implements, and the configured text names deny first: whether it is one *)
(* of them is a constant.                                                  *)
(***************************************************************************)
EXTENDS MetadataOps

CONSTANTS
    EffectKnown,    \* casbin implements the configured effect
    Always,         \* "true" or "*"
    Never,          \* "false"
    Unparsed,       \* a logic that is no expression
    Expressions,    \* the others: [op, first, then], see Evaluate
    PlayerIds,      \* the subjects that are UUIDs
    OtherIds,       \* those that are not
    GroupsOf,       \* PlayerIds -> the groups casbin has the player in
    MetaValues,     \* the metadata a player may have
    PlayerMeta,     \* PlayerIds -> what players.GetMetadataByUUID finds
    ServerMeta,     \* server names -> what servers.GetMetadataByName finds
    NoMetadata,     \* ... nothing
    ServerType,     \* the type "server"
    Objects,        \* requested objects, [type, name]
    Actions, AnyAction,
    PolicyRules,    \* the rules an enforcer may load, [sub, obj, act, eft]
    MaxRules        \* bound: rules loaded

Maps == {"labels", "annotations"}
Logics == {Always, Never, Unparsed} \cup Expressions
Requests == [sub : PlayerIds \cup OtherIds, obj : Objects, act : Actions]

ASSUME MatcherAssumption ==
    /\ AnyAction \notin Actions /\ MaxRules \in Nat
    /\ EffectKnown \in BOOLEAN
    /\ \A e \in Expressions : e.op \in {"value", "test", "and", "or"}
    /\ \A p \in PlayerIds : PlayerMeta[p] \in MetaValues \cup {NoMetadata}

VARIABLES
    ready,      \* InitCasbin has set the enforcer
    rules       \* the rules it holds, in their order in memory

matcherVars == <<ready, rules>>

-----------------------------------------------------------------------------
(* An expression over the parameters it is given and the two maps of meta. *)
(* An operand is [from, key]: a literal text, an entry of a map, whether   *)
(* inGroup(key), or a parameter.                                           *)

\* What the expression finds in a map; the maps are empty without metadata.
InMap(x, meta) == meta # NoMetadata /\ Has(meta[x.from], x.key)

\* govaluate fails on a parameter it was not given, and on an absent entry.
Supplied(x, given, meta) ==
    IF x.from \in Maps THEN InMap(x, meta) ELSE x.from \in {"text"} \cup DOMAIN given

Read(x, given, meta) ==
    IF x.from = "text" THEN x.key
    ELSE IF x.from \in Maps THEN meta[x.from][x.key]
    ELSE IF x.from = "inGroup" THEN (IF x.key \in given.inGroup THEN TrueText ELSE FalseText)
    ELSE given[x.from]

\* Faulty variant: what is absent reads as an empty text.
TryAbsentAsEmpty(t, given, meta) ==
    LET Found(x) == IF Supplied(x, given, meta) THEN Read(x, given, meta) ELSE EmptyText IN
    IF (Found(t.left) = Found(t.right)) = t.same THEN "true" ELSE "false"

\* left == right, or left != right.
Try(t, given, meta) ==
    IF ~(Supplied(t.left, given, meta) /\ Supplied(t.right, given, meta)) THEN "fails"
    ELSE IF (Read(t.left, given, meta) = Read(t.right, given, meta)) = t.same THEN "true" ELSE "false"

\* && and || stop at a left side that decides.
Outcome(e, given, meta) ==
    LET first == Try(e.first, given, meta) IN
    IF \/ e.op = "test" \/ first = "fails"
       \/ e.op = "and" /\ first = "false"
       \/ e.op = "or" /\ first = "true"
    THEN first
    ELSE Try(e.then, given, meta)

\* "yes", "no" or "error".  An evaluation that fails is no match, of a negation
\* as well; a result that is no Boolean is an error.
Evaluate(e, given, meta) ==
    IF e = Unparsed THEN "error"
    ELSE IF e.op = "value" THEN (IF Supplied(e.first.left, given, meta) THEN "error" ELSE "no")
    ELSE IF Outcome(e, given, meta) = "true" THEN "yes" ELSE "no"

Literal(logic) == IF logic = Always THEN "yes" ELSE "no"

\* What a rule says of a subject whose metadata are meta.  One that is no UUID
\* fails every rule whose logic is not a literal.
SaysOfSubject(sub, logic, meta) ==
    IF logic \in {Always, Never} THEN Literal(logic)
    ELSE IF sub \in OtherIds THEN "error"
    ELSE Evaluate(logic, [uuid |-> sub, inGroup |-> GroupsOf[sub]], meta)

EvalSubjectAttributes(sub, logic) ==
    SaysOfSubject(sub, logic, IF sub \in OtherIds THEN NoMetadata ELSE PlayerMeta[sub])

\* Of the objects only servers that are known have labels and annotations.
EvalObjectAttributes(sub, obj, logic) ==
    IF logic \in {Always, Never} THEN Literal(logic)
    ELSE Evaluate(logic, [type |-> obj.type, name |-> obj.name, r_sub_uuid |-> sub],
                  IF obj.type = ServerType /\ obj.name \in DOMAIN ServerMeta
                  THEN ServerMeta[obj.name] ELSE NoMetadata)

\* The matcher: subject, then object, then action, as far as each matches.
Matcher(req, rule) ==
    LET sub == EvalSubjectAttributes(req.sub, rule.sub)
        obj == EvalObjectAttributes(req.sub, req.obj, rule.obj)
    IN IF sub # "yes" THEN sub
       ELSE IF obj # "yes" THEN obj
       ELSE IF rule.act \in {req.act, AnyAction} THEN "yes" ELSE "no"

-----------------------------------------------------------------------------
(* Enforce goes through the rules and stops at a rule that fails or denies. *)

\* Faulty variant: the last rule that matches decides.
LastMatchDecides(req, verdict, rule) ==
    LET match == Matcher(req, rule) IN
    IF verdict = "failed" \/ match = "error" THEN "failed"
    ELSE IF match = "no" THEN verdict
    ELSE IF rule.eft = "deny" THEN "denied"
    ELSE IF rule.eft = "allow" THEN "allowed" ELSE verdict

\* An effect other than the two decides nothing.
Effect(req, verdict, rule) ==
    LET match == Matcher(req, rule) IN
    IF verdict \in {"failed", "denied"} THEN verdict
    ELSE IF match = "error" THEN "failed"
    ELSE IF match = "no" THEN verdict
    ELSE IF rule.eft = "deny" THEN "denied"
    ELSE IF rule.eft = "allow" THEN "allowed" ELSE verdict

\* Without rules the matcher runs once on empty logics, which fail.
Enforce(req, list) ==
    IF list = <<>> \/ ~EffectKnown THEN "failed"
    ELSE LET verdict[i \in 0..Len(list)] ==
                 IF i = 0 THEN "open" ELSE Effect(req, verdict[i - 1], list[i])
         IN verdict[Len(list)]

\* The caller gets FALSE with every error.
HasPermission(req) == ready /\ Enforce(req, rules) = "allowed"

-----------------------------------------------------------------------------
\* The enforcer is set once it has loaded the list.
InitCasbin ==
    /\ ~ready
    /\ ready' = TRUE
    /\ UNCHANGED rules

\* The stored list gains a rule, and the enforcer has it after its next load.
\* Where it stands depends on who rewrote the list since.
LoadPolicy ==
    /\ Len(rules) < MaxRules
    /\ \E r \in PolicyRules, i \in 1..Len(rules) + 1 : rules' = InsertAt(rules, i, r)
    /\ UNCHANGED ready

MatcherInit == ready = FALSE /\ rules = <<>>
MatcherNext == InitCasbin \/ LoadPolicy
MatcherSpec == MatcherInit /\ [][MatcherNext]_matcherVars

-----------------------------------------------------------------------------
(* Properties.                                                             *)

Reordered(list, p) == [i \in DOMAIN list |-> list[p[i]]]
Orders(n) == {p \in [1..n -> 1..n] : \A i, j \in 1..n : p[i] = p[j] => i = j}

\* Whether a request is allowed does not depend on the order of the rules,
\* although Enforce stops at the first one that fails or denies and an error
\* in one rule fails the requests that others allow: proxies that loaded the
\* same list at different times agree.
DecisionIgnoresOrder ==
    \A req \in Requests, p \in Orders(Len(rules)) :
        (Enforce(req, rules) = "allowed") <=> (Enforce(req, Reordered(rules, p)) = "allowed")

\* A request that a rule denies, or that fails in a rule, stays refused
\* whatever rules are added, wherever they are put.
RefusalsStand ==
    [][\A req \in Requests :
          ready /\ rules # <<>> /\ Enforce(req, rules) \in {"denied", "failed"} =>
              ~HasPermission(req)']_matcherVars

\* Nothing can be read in the maps that the check has of the subject.
Unknown(sub) ==
    \/ sub \in OtherIds
    \/ PlayerMeta[sub] = NoMetadata
    \/ \A map \in Maps : PlayerMeta[sub][map] \in {<<>>, NilMap}

\* A player whose metadata the proxy does not have (yet) is allowed nothing on
\* account of what is missing, by a negation or an alternative either: a rule
\* allows it that would, whatever the player's metadata are.
MissingMetadataAllowsNothing ==
    \A req \in Requests : HasPermission(req) /\ Unknown(req.sub) =>
        \E i \in DOMAIN rules :
            /\ rules[i].eft = "allow" /\ Matcher(req, rules[i]) = "yes"
            /\ \A meta \in MetaValues : SaysOfSubject(req.sub, rules[i].sub, meta) = "yes"
=============================================================================
