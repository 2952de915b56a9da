----------------------------- MODULE Onboarding -----------------------------
(***************************************************************************)
(* How a registered person comes to an organization with a merchant and its *)
(* accounts: POST /v1/organizations (identity/platform.ts), the onboarding  *)
(* of the first merchant (identity/tenant-service.ts) and ensureChart after *)
(* it, while members add merchants over the general route.                  *)
(* Requests are repeated from several tabs, die and lose their answers.     *)
(***************************************************************************)
EXTENDS Naturals

CONSTANTS
  Tabs,        \* browser tabs of the person, each with its form filled in
  Slugs,       \* organizations' names and slugs
  Names,       \* merchants' names, with country and currency
  MaxDeaths    \* bound: requests that die between two steps

Nobody == "nobody"
Person == "person"
Other == "other"

\* The absence of a holder is not a tab.
OnboardingAssumption == Nobody \notin Tabs

VARIABLES
  form,       \* what each tab has filled in: slug and name
  at,         \* per tab: "org", "merchant", "insert", "chart", "done", "refused"
  org,        \* per slug: the organization's owner: the Person, an Other, Nobody
  merchants,  \* per slug: names of the merchants of the organization
  chart,      \* <<slug, name>> of the merchants whose accounts exist
  holder,     \* per slug: the tab with the merchant creation lock, or Nobody
  first,      \* history: per slug, merchants the onboarding created
  late,       \* history: it created one although there was another
  deaths      \* history: requests that died, for the bound

tabVars == <<form, at>>
vars == <<tabVars, org, merchants, chart, holder, first, late, deaths>>

Init ==
  /\ form \in [Tabs -> [slug : Slugs, name : Names]]
  /\ at = [t \in Tabs |-> "org"]
  /\ org \in [Slugs -> {Nobody, Other}]
  /\ merchants = [s \in Slugs |-> {}]
  /\ chart = {}
  /\ holder = [s \in Slugs |-> Nobody]
  /\ first = [s \in Slugs |-> {}]
  /\ late = FALSE
  /\ deaths = 0

Slug(t) == form[t].slug
Name(t) == form[t].name
Goto(t, point) == at' = [at EXCEPT ![t] = point]

Owned == {s \in Slugs : org[s] = Person}

-----------------------------------------------------------------------------
\* Bug: only the slug's unique index decides.
CreatesAnother(slug) == org[slug] = Nobody

\* Under the lock of the user's row: the user owns nothing yet, and nobody
\* else has the slug.
Creates(slug) == Owned = {} /\ org[slug] = Nobody

\* createOrganizationForUser: create, replay the same payload, or refuse.
CreateOrganization(t) ==
  /\ at[t] = "org"
  /\ IF Creates(Slug(t))
       THEN org' = [org EXCEPT ![Slug(t)] = Person] /\ Goto(t, "merchant")
       ELSE org' = org /\ Goto(t, IF Slug(t) \in Owned THEN "merchant" ELSE "refused")
  /\ UNCHANGED <<form, merchants, chart, holder, first, late, deaths>>

\* Bug: the lock is only taken by the onboarding's own requests.
IgnoresLock(slug) == TRUE

\* The advisory lock that every creation of a merchant takes.
LockFree(slug) == holder[slug] = Nobody

\* ensureMerchantForOnboarding: the lock, then the count of what there is.
EnterOnboarding(t) ==
  /\ at[t] = "merchant"
  /\ holder[Slug(t)] = Nobody
  /\ IF merchants[Slug(t)] = {}
       THEN Goto(t, "insert") /\ holder' = [holder EXCEPT ![Slug(t)] = t]
       ELSE /\ Goto(t, IF merchants[Slug(t)] = {Name(t)} THEN "chart" ELSE "refused")
            /\ holder' = holder
  /\ UNCHANGED <<form, org, merchants, chart, first, late, deaths>>

\* The insert, under the unique index of the names, and the commit.
InsertOnboarding(t) ==
  LET slug == Slug(t) IN
  /\ at[t] = "insert"
  /\ holder' = [holder EXCEPT ![slug] = Nobody]
  /\ IF Name(t) \in merchants[slug]
       THEN Goto(t, "refused") /\ UNCHANGED <<merchants, first, late>>
       ELSE /\ merchants' = [merchants EXCEPT ![slug] = @ \cup {Name(t)}]
            /\ first' = [first EXCEPT ![slug] = @ \cup {Name(t)}]
            /\ late' = (late \/ merchants[slug] # {})
            /\ Goto(t, "chart")
  /\ UNCHANGED <<form, org, chart, deaths>>

\* ensureChart, in a transaction of its own and as often as it takes.
EnsureChart(t) ==
  /\ at[t] = "chart"
  /\ chart' = chart \cup {<<Slug(t), Name(t)>>}
  /\ Goto(t, "done")
  /\ UNCHANGED <<form, org, merchants, holder, first, late, deaths>>

-----------------------------------------------------------------------------
\* createMerchant over the general route.
CreateMerchant(slug, name) ==
  /\ slug \in Owned
  /\ LockFree(slug)
  /\ name \notin merchants[slug]
  /\ merchants' = [merchants EXCEPT ![slug] = @ \cup {name}]
  /\ UNCHANGED <<tabVars, org, chart, holder, first, late, deaths>>

\* A request dies or its answer is lost, and the wizard starts again.
Die(t) ==
  /\ deaths < MaxDeaths
  /\ deaths' = deaths + 1
  /\ at[t] \in {"merchant", "insert", "chart", "done"}
  /\ Goto(t, "org")
  /\ holder' = [s \in Slugs |-> IF holder[s] = t THEN Nobody ELSE holder[s]]
  /\ UNCHANGED <<form, org, merchants, chart, first, late>>

Wizard(t) == CreateOrganization(t) \/ EnterOnboarding(t) \/ InsertOnboarding(t) \/ EnsureChart(t)

Next ==
  \/ \E t \in Tabs : Wizard(t) \/ Die(t)
  \/ \E s \in Slugs, n \in Names : CreateMerchant(s, n)

Spec == Init /\ [][Next]_vars

-----------------------------------------------------------------------------
\* The wizard, however often it is repeated, from however many tabs and with
\* whatever dies in between, gives a person one organization and makes one
\* merchant in it, which was the first one there; and whoever is told that
\* the chart is ready has a merchant and its accounts.
OnboardedOnce ==
  /\ \A r, s \in Owned : r = s
  /\ \A s \in Slugs : \A m, n \in first[s] : m = n
  /\ ~late
  /\ \A t \in Tabs : at[t] = "done" =>
       Slug(t) \in Owned /\ Name(t) \in merchants[Slug(t)] /\ <<Slug(t), Name(t)>> \in chart
=============================================================================
