----------------------------- MODULE Subscriptions -----------------------------
(***************************************************************************)
(* Organisations, plans and their features, subscriptions and metered use  *)
(* (src/organizations, src/subscriptions, src/super-admin).  A             *)
(* subscription belongs to one organisation; the organisation keeps a copy *)
(* of the plan's tier.  The super admin's audit rows are left out, and of  *)
(* dates only whether the current period has ended.                        *)
(***************************************************************************)
EXTENDS Naturals, SequencesExt, Rows

CONSTANTS
    SubscriptionStarts,     \* the rows there are when a behaviour begins
    Reports                 \* the amounts of use a client may report in one call

ASSUME ReportsAssumption == Reports \subseteq Nat \ {0}

subscriptionVars == rowVars

\* manual is not a column: the super admin wrote the plan himself.
Tenant(code, plan) == [kind |-> "tenant", code |-> code, deleted |-> FALSE, status |-> "ACTIVE",
                       plan |-> plan, manual |-> FALSE]
Plan(slug) == [kind |-> "plan", code |-> slug, deleted |-> FALSE, active |-> TRUE]
Subscription(o, p) == [kind |-> "subscription", code |-> o, plan |-> p, status |-> "TRIAL", ended |-> FALSE]
Feature(slug) == [kind |-> "feature", code |-> slug]
\* value is the plan's limit on the use of the feature.
PlanFeature(p, f, value) ==
    [kind |-> "planFeature", code |-> <<p, f>>, plan |-> p, feature |-> f, available |-> TRUE, value |-> value]
Counter(o, f, amount) ==
    [kind |-> "counter", code |-> <<o, f>>, org |-> o, feature |-> f, usage |-> amount, hard |-> 9]

Slugs == {"free", "starter", "pro", "pro-copy"}
mapPlanSlugToEnum(slug) == IF slug = "starter" THEN "STARTER" ELSE IF slug = "pro" THEN "PRO" ELSE "FREE"
sortOrder(slug) == CASE slug = "free" -> 0 [] slug = "starter" -> 1 [] OTHER -> 2
Tier(p) == mapPlanSlugToEnum(row[p].code)
IsKind(i, k) == row[i].kind = k
Offered(p) == Found(p, "plan") /\ row[p].active
SubscriptionsOf(o) == {s \in Ids : IsKind(s, "subscription") /\ row[s].code = o}

\* What a plan's tier is written to the organisation with.
SyncPlan(o, tier) == Set(o, [plan |-> tier, manual |-> FALSE])

\* VALID_TRANSITIONS: the states a status may be entered from.
ValidSources == [ACTIVE |-> {"TRIAL", "GRACE_PERIOD", "SUSPENDED"}, GRACE_PERIOD |-> {"ACTIVE"},
                 SUSPENDED |-> {"PAST_DUE", "GRACE_PERIOD"},
                 CANCELED |-> {"ACTIVE", "GRACE_PERIOD", "TRIAL"}]
assertValidTransition(s, target) == row[s].status \in ValidSources[target]

-----------------------------------------------------------------------------
(* SubscriptionLifecycleService *)
activateTrial(c, o) ==
    /\ IsKind(o, "tenant") /\ SubscriptionsOf(o) = {}
    /\ \E p \in Ids : Offered(p) /\ BeginInsert(c, <<Insert(Subscription(o, p)), SyncPlan(o, Tier(p))>>)
activate(c, s) == assertValidTransition(s, "ACTIVE") /\ Begin(c, <<Set(s, [status |-> "ACTIVE"])>>)
cancel(c, s) == assertValidTransition(s, "CANCELED") /\ Begin(c, <<Set(s, [status |-> "CANCELED"])>>)
\* Mutant: an expired subscription may be renewed too.
RenewAny(c, s) == Begin(c, <<Set(s, [status |-> "ACTIVE", ended |-> FALSE])>>)
renew(c, s) ==
    row[s].status # "EXPIRED" /\ Begin(c, <<Set(s, [status |-> "ACTIVE", ended |-> FALSE])>>)
Suspension(s) == <<Set(s, [status |-> "SUSPENDED"]), SyncPlan(row[s].code, "FREE")>>
suspend(c, s) == assertValidTransition(s, "SUSPENDED") /\ Begin(c, Suspension(s))
expire(c, s) ==
    /\ row[s].status # "EXPIRED"
    /\ Begin(c, <<Set(s, [status |-> "EXPIRED"]), SyncPlan(row[s].code, "FREE")>>)
markPastDue(c, s) == row[s].status = "ACTIVE" /\ Begin(c, <<Set(s, [status |-> "PAST_DUE"])>>)

\* The sweep lists the subscriptions in grace whose period has ended, and
\* suspends one after another what is still in grace by then; then it lists
\* the active ones and moves them to grace.  What throws is passed over.
processExpired(c) ==
    Begin(c, <<[do |-> "list", status |-> "GRACE_PERIOD", to |-> "SUSPENDED"],
               [do |-> "list", status |-> "ACTIVE", to |-> "GRACE_PERIOD"]>>)
\* Mutant: the list is not asked whether the period has ended.
ListStatus(c) ==
    /\ ~Idle(c) /\ Head(todo[c]).do = "list"
    /\ LET l == Head(todo[c])
           due == {s \in Ids : IsKind(s, "subscription") /\ row[s].status = l.status}
       IN Read(c, "list", SetToSeq({[do |-> "take", id |-> s, to |-> l.to] : s \in due}) \o Tail(todo[c]))
ListEnded(c) ==
    /\ ~Idle(c) /\ Head(todo[c]).do = "list"
    /\ LET l == Head(todo[c])
           due == {s \in Ids : IsKind(s, "subscription") /\ row[s].status = l.status /\ row[s].ended}
       IN Read(c, "list", SetToSeq({[do |-> "take", id |-> s, to |-> l.to] : s \in due}) \o Tail(todo[c]))
TakeEnded(c) ==
    /\ ~Idle(c) /\ Head(todo[c]).do = "take"
    /\ LET t == Head(todo[c])
           first == IF ~assertValidTransition(t.id, t.to) THEN <<>>
                    ELSE IF t.to = "SUSPENDED" THEN Suspension(t.id)
                    ELSE <<Set(t.id, [status |-> t.to])>>
       IN Read(c, "take", first \o Tail(todo[c]))

\* Time passes: the current period of a subscription ends.
PeriodEnds(s) ==
    /\ IsKind(s, "subscription") /\ ~row[s].ended
    /\ row' = [row EXCEPT ![s].ended = TRUE]
    /\ UNCHANGED <<todo, begun, overlapped, died>>

-----------------------------------------------------------------------------
(* SubscriptionsService, and the super admin's operations on plans *)
\* Mutant: the organisation keeps the tier of the plan it had.
changePlanOnly(c, s) ==
    \E p \in Ids :
        Offered(p) /\ p # row[s].plan /\ Begin(c, <<Set(s, [plan |-> p])>>)
changePlan(c, s) ==
    \E p \in Ids, immediate \in BOOLEAN :
        /\ Offered(p) /\ p # row[s].plan
        /\ immediate => sortOrder(row[p].code) > sortOrder(row[row[s].plan].code)
        /\ Begin(c, <<Set(s, IF immediate THEN [plan |-> p, ended |-> FALSE] ELSE [plan |-> p]),
                      SyncPlan(row[s].code, Tier(p))>>)
createPlan(c) ==
    \E slug \in Slugs : /\ \A p \in Ids : IsKind(p, "plan") => row[p].code # slug
                        /\ BeginInsert(c, <<Insert(Plan(slug))>>)
updatePlan(c, p) == Found(p, "plan") /\ \E b \in BOOLEAN : Begin(c, <<Set(p, [active |-> b])>>)
softDeletePlan(c, p) ==
    /\ Found(p, "plan")
    /\ ~\E s \in Ids : /\ IsKind(s, "subscription") /\ row[s].plan = p
                       /\ row[s].status \in {"ACTIVE", "PAST_DUE", "TRIAL", "GRACE_PERIOD"}
    /\ Begin(c, <<Set(p, [active |-> FALSE, deleted |-> TRUE])>>)
archivePlan(c, p) == Found(p, "plan") /\ Begin(c, <<Set(p, [active |-> FALSE, deleted |-> TRUE])>>)
restorePlan(c, p) ==
    /\ IsKind(p, "plan") /\ row[p].deleted
    /\ Begin(c, <<Set(p, [active |-> TRUE, deleted |-> FALSE])>>)
\* The copy of a plan is not active.
duplicatePlan(c, p) ==
    /\ Found(p, "plan") /\ \A q \in Ids : IsKind(q, "plan") => row[q].code # "pro-copy"
    /\ BeginInsert(c, <<Insert([Plan("pro-copy") EXCEPT !.active = FALSE])>>)

-----------------------------------------------------------------------------
(* OrganizationsService and the super admin's operations on organisations *)
createTenant(c) ==
    \E n \in {1, 2} : /\ \A o \in Ids : IsKind(o, "tenant") => row[o].code # n
                      /\ BeginInsert(c, <<Insert(Tenant(n, "FREE"))>>)
softDeleteTenant(c, o) == Found(o, "tenant") /\ Begin(c, <<Set(o, [deleted |-> TRUE])>>)
restoreTenant(c, o) ==
    IsKind(o, "tenant") /\ row[o].deleted /\ Begin(c, <<Set(o, [deleted |-> FALSE])>>)
suspendOrganization(c, o) == Found(o, "tenant") /\ Begin(c, <<Set(o, [status |-> "SUSPENDED"])>>)
restoreOrganization(c, o) == Found(o, "tenant") /\ Begin(c, <<Set(o, [status |-> "ACTIVE"])>>)
reactivateOrganization(c, o) ==
    Found(o, "tenant") /\ Begin(c, <<Set(o, [status |-> "ACTIVE", deleted |-> FALSE])>>)
changeOrganizationPlan(c, o) ==
    /\ Found(o, "tenant")
    /\ \E tier \in {"FREE", "PRO"} : Begin(c, <<Set(o, [plan |-> tier, manual |-> TRUE])>>)
\* The limits written here are read by getUsage() only.
CountersOf(o) == {k \in Ids : IsKind(k, "counter") /\ row[k].org = o}
overrideUsageLimits(c, o) ==
    /\ Found(o, "tenant")
    /\ Begin(c, SetToSeq({Set(k, [hard |-> 3]) : k \in CountersOf(o)}))
overrideFeatureFlags(c, o, f) ==
    /\ Found(o, "tenant") /\ IsKind(f, "feature")
    /\ \E k \in CountersOf(o) : row[k].feature = f /\ Begin(c, <<Set(k, [hard |-> 3])>>)

-----------------------------------------------------------------------------
(* Features of plans, and their metered use *)
createFeature(c) ==
    /\ \A f \in Ids : IsKind(f, "feature") => row[f].code # 1
    /\ BeginInsert(c, <<Insert(Feature(1))>>)
\* deleteMany({ where: { featureId } }) of the rows of a kind, by a statement.
deleteFeature(c, f) ==
    /\ IsKind(f, "feature")
    /\ Begin(c, <<[do |-> "clear", kind |-> "planFeature", feature |-> f],
                  [do |-> "clear", kind |-> "counter", feature |-> f], Erase(f)>>)
Clear(c) ==
    /\ ~Idle(c) /\ Head(todo[c]).do = "clear"
    /\ LET s == Head(todo[c])
       IN row' = [i \in Ids |-> IF IsKind(i, s.kind) /\ row[i].feature = s.feature
                                THEN Gone ELSE row[i]]
    /\ todo' = [todo EXCEPT ![c] = Tail(@)]
    /\ UNCHANGED <<begun, overlapped, died>>
assignFeatureToPlan(c, p, f) ==
    /\ IsKind(p, "plan") /\ IsKind(f, "feature")
    /\ \A i \in Ids : IsKind(i, "planFeature") => row[i].code # <<p, f>>
    /\ \E value \in {1, 2} : BeginInsert(c, <<Insert(PlanFeature(p, f, value))>>)
removeFeatureFromPlan(c, i) == IsKind(i, "planFeature") /\ Begin(c, <<Erase(i)>>)
enableFeature(c, i) ==
    IsKind(i, "planFeature") /\ \E b \in BOOLEAN : Begin(c, <<Set(i, [available |-> b])>>)

\* What the subscription's plan says of the feature, whatever its status.
checkFeature(o, f) ==
    {i \in Ids : /\ IsKind(i, "planFeature") /\ row[i].feature = f /\ row[i].available
                 /\ \E s \in SubscriptionsOf(o) : row[s].plan = row[i].plan}
Usage(o, f) ==
    IF \E k \in CountersOf(o) : row[k].feature = f
    THEN row[CHOOSE k \in CountersOf(o) : row[k].feature = f].usage ELSE 0
\* Mutant: the use that reaches the limit is not refused.
UsageReached(o, f) == \A i \in checkFeature(o, f) : Usage(o, f) <= row[i].value
checkUsage(o, f) == \A i \in checkFeature(o, f) : Usage(o, f) < row[i].value
can(o, f) == checkFeature(o, f) # {} /\ checkUsage(o, f)
\* A client asks whether it can, which does not depend on the amount, and then
\* reports the use of any amount: an upsert, which compares with no limit.
Use(c, o, f) ==
    /\ IsKind(o, "tenant") /\ IsKind(f, "feature") /\ can(o, f)
    /\ \E amount \in Reports :
          BeginInsert(c, <<[do |-> "enter", org |-> o, feature |-> f, amount |-> amount]>>)
IncrementUsage(c) ==
    /\ ~Idle(c) /\ Head(todo[c]).do = "enter" /\ Room
    /\ LET s == Head(todo[c])
           old == {k \in CountersOf(s.org) : row[k].feature = s.feature}
       IN IF ~Exists(s.feature) THEN Throw(c)
          ELSE /\ row' = IF old = {} THEN [row EXCEPT ![NextId] = Counter(s.org, s.feature, s.amount)]
                         ELSE [i \in Ids |-> IF i \in old THEN [row[i] EXCEPT !.usage = @ + s.amount]
                                             ELSE row[i]]
               /\ todo' = [todo EXCEPT ![c] = Tail(@)]
               /\ UNCHANGED <<begun, overlapped, died>>

-----------------------------------------------------------------------------
\* A row of these tables; what subscriptions and counters refer to; the tiers
\* an organisation may have on record.
OfSubscriptions(r) ==
    /\ "kind" \in DOMAIN r
    /\ r.kind = "tenant" => {"plan", "manual"} \subseteq DOMAIN r
    /\ r.kind = "plan" => "code" \in DOMAIN r
    /\ r.kind = "subscription" => {"code", "plan", "status", "ended"} \subseteq DOMAIN r
    /\ r.kind = "counter" => {"org", "feature", "usage"} \subseteq DOMAIN r /\ r.usage \in Int
    /\ r.kind = "planFeature" => {"plan", "feature", "available", "value"} \subseteq DOMAIN r /\ r.value \in Int
NeatPlans(tab) ==
    /\ DOMAIN tab = Ids /\ \A i \in Ids : OfSubscriptions(tab[i])
    /\ \A s \in Ids : tab[s].kind = "subscription" =>
          /\ tab[s].plan \in Ids /\ tab[tab[s].plan].kind = "plan"
          /\ tab[s].code \in Ids /\ tab[tab[s].code].kind = "tenant"
    /\ \A k, l \in Ids :
          /\ tab[k].kind = "counter" /\ tab[l].kind = "counter"
          /\ tab[k].org = tab[l].org /\ tab[k].feature = tab[l].feature
          => k = l
TiersOf(tab, o) ==
    {"FREE"} \cup {mapPlanSlugToEnum(tab[tab[s].plan].code) :
                     s \in {x \in Ids : tab[x].kind = "subscription" /\ tab[x].code = o}}
Agreed(tab, o) ==
    tab[o].kind = "tenant" /\ ~tab[o].manual => tab[o].plan \in TiersOf(tab, o)
ASSUME SubscriptionAssumption ==
    \A start \in SubscriptionStarts : NeatPlans(start) /\ \A o \in Ids : Agreed(start, o)

SubscriptionInit == row \in SubscriptionStarts /\ RowsInit
Lifecycle(c, s) ==
    /\ IsKind(s, "subscription")
    /\ \/ activate(c, s) \/ cancel(c, s) \/ renew(c, s) \/ suspend(c, s) \/ expire(c, s)
       \/ markPastDue(c, s) \/ changePlan(c, s)
SubscriptionCall(c) ==
    \/ processExpired(c) \/ createPlan(c) \/ createTenant(c) \/ createFeature(c)
    \/ \E i \in Ids :
         \/ activateTrial(c, i) \/ Lifecycle(c, i)
         \/ updatePlan(c, i) \/ softDeletePlan(c, i) \/ archivePlan(c, i) \/ restorePlan(c, i)
         \/ duplicatePlan(c, i) \/ softDeleteTenant(c, i) \/ restoreTenant(c, i)
         \/ suspendOrganization(c, i) \/ restoreOrganization(c, i) \/ reactivateOrganization(c, i)
         \/ changeOrganizationPlan(c, i) \/ overrideUsageLimits(c, i)
         \/ deleteFeature(c, i) \/ removeFeatureFromPlan(c, i) \/ enableFeature(c, i)
         \/ \E j \in Ids : assignFeatureToPlan(c, i, j) \/ overrideFeatureFlags(c, i, j) \/ Use(c, i, j)
SubscriptionNext ==
    \/ \E s \in Ids : PeriodEnds(s)
    \/ \E c \in Callers :
        \/ Ready(c) /\ SubscriptionCall(c)
        \/ ListEnded(c) \/ TakeEnded(c) \/ Clear(c) \/ IncrementUsage(c)
        \/ Update(c) \/ Create(c) \/ Deletion(c) \/ Die(c)
SubscriptionSpec == SubscriptionInit /\ [][SubscriptionNext]_subscriptionVars

-----------------------------------------------------------------------------
\* As long as no calls overlap, an expired subscription stays so, and one
\* enters grace only when its period has ended.
ExpiredIsOver ==
    [][\A s \in Ids : IsKind(s, "subscription") /\ Orderly' =>
         /\ (row[s].status = "EXPIRED" => row'[s].status = "EXPIRED")
         /\ (row'[s].status = "GRACE_PERIOD" => row[s].status = "GRACE_PERIOD" \/ row[s].ended)
      ]_subscriptionVars

\* Whenever no call is in progress, and none overlapped or died, the plan an
\* organisation has on record is that of its subscription, or FREE, if it was
\* not the super admin who wrote it; without a subscription it is FREE.
PlanAgrees ==
    Orderly /\ Quiet => \A o \in Ids : IsKind(o, "tenant") /\ ~row[o].manual =>
        row[o].plan \in {"FREE"} \cup {Tier(row[s].plan) : s \in SubscriptionsOf(o)}

\* As long as no calls overlap, a client that asks first adds to a counter
\* only while what was used is less than the plan allows at that moment: it
\* passes the limit by less than one report, and then adds nothing more.
MeteredWithinLimit ==
    [][Orderly' => \A k \in Ids : 
         IsKind(k, "counter") /\ row'[k].kind = "counter" /\ row'[k].usage > row[k].usage =>
            \A i \in checkFeature(row[k].org, row[k].feature) : row[k].usage < row[i].value
      ]_subscriptionVars
=============================================================================
