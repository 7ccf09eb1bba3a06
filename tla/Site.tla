-------------------------------- MODULE Site --------------------------------
(***************************************************************************)
(* The web site (src/frontend): its addresses, the page at each and where  *)
(* the page leads, and who is signed in: AuthContext, the two route        *)
(* guards, and the sign-up, sign-in, sign-out, password and two-factor     *)
(* requests, which are answered late, with an error or not at all.  The    *)
(* auth server is seen through the session cookie.                         *)
(*                                                                         *)
(* `tab` is what the page shown keeps (the tab, sidebar entry or step),    *)
(* `busy` its loading flag, `asked` the requests not answered yet.         *)
(***************************************************************************)
EXTENDS Integers, FiniteSets

CONSTANTS
    None,       \* nobody
    Accounts,   \* people with an account
    MaxAsked    \* requests in flight, a bound

VARIABLES
    path,       \* the address
    tab, busy,  \* the page shown
    user,       \* AuthContext's user: who, and whether its record has two-factor
    loading,    \* AuthContext's loading
    cookie,     \* whose session the browser's cookie is
    asked,      \* requests on the way, and whether the page that sent them is there
    verified,   \* accounts whose email is verified
    secured     \* accounts with two-factor on

vars == <<path, tab, busy, user, loading, cookie, asked, verified, secured>>

-----------------------------------------------------------------------------
(***************************************************************************)
(* Where the pages lead.  Addresses with a parameter stand for any value.  *)
(***************************************************************************)
WaitlistNavbar == {"/", "/pricing", "/open-source", "/contact", "/join-waitlist"}
Footer         == {"/", "/pricing", "/open-source", "/contact", "/privacy", "/terms"}
Framed         == WaitlistNavbar \cup Footer
FinalCTA       == {"/submit-strategy"}
WaitlistFinalCTA == {"/join-waitlist"}
WaitlistHero   == {"/join-waitlist"}

Navbar ==
    {"/", "/pricing", "/blog", "/open-source"}
        \cup (IF user = None THEN {"/login", "/signup"} ELSE {})

Waitlist     == Framed \cup WaitlistHero \cup WaitlistFinalCTA
JoinWaitlist == Framed
HowItWorksPage == Framed \cup WaitlistFinalCTA
PricingPage    == Framed \cup WaitlistFinalCTA
OpenSourcePage == Framed \cup WaitlistFinalCTA \cup {"/join-waitlist"}
PrivacyPage  == Framed
TermsPage    == Framed
ContactPage  == Framed
SubmitStrategyPage == Framed
HomePage     == Navbar \cup FinalCTA \cup Footer
BlogPage     == Framed \cup {"/blog/:slug"}
BlogPostPage == Framed \cup {"/blog", "/blog/:slug", "/signup"}

DocsHeader  == {"/", "/docs/:id"}
DocsSidebar == {"/docs/:id"}
DocsPage    == DocsHeader \cup DocsSidebar

StrategiesPage     == Navbar \cup {"/strategies/:id"} \cup Footer
StrategyDetailPage == Navbar \cup {"/strategies"} \cup Footer
ConnectPage        == Navbar \cup Footer

SignupPage         == Framed \cup {"/forgot-password"}
ForgotPasswordPage == Framed \cup {"/login"}
ResetPasswordPage  ==
    Framed \cup (IF tab = "done" THEN {"/login"} ELSE {"/forgot-password"})
TwoFactorSetupPage == Framed \cup (IF tab = "done" THEN {"/dashboard"} ELSE {})

DashboardTabs ==
    {"overview", "positions", "trades", "strategy", "agent", "vault", "settings",
     "verification", "referral"}
DashboardPage ==
    (IF user.twoFactor THEN {} ELSE {"/2fa-setup"})
        \cup (CASE tab = "settings" -> {"/login"}
                [] tab = "referral" -> {"/referral"}
                [] OTHER            -> {})

VaultsPage         == {"/dashboard"}
TradeHistoryPage   == {"/dashboard"}
ActiveTradesPage   == {"/dashboard"}
AnalyticsPage      == {"/dashboard"}
RiskSettingsPage   == {"/dashboard"}
AccountSettingsPage == {"/dashboard"}
ReferralPage       == {"/dashboard"}
NotificationSettingsPage == {"/dashboard"}

AdminTabs == {"overview", "users", "approvals", "analytics"}
AdminPage == {}

\* The trader pages share a sidebar.  Three of them follow it, the others
\* only move its highlight.
TraderSidebar ==
    {"overview", "performance", "trades", "earnings", "strategy", "subscribers", "submit"}
TraderRouteOld(p) == IF p = "strategy" THEN "/trader/strategies" ELSE "/trader"
TraderRoute(p) ==
    CASE p = "overview"    -> "/trader"
      [] p = "performance" -> "/trader/performance"
      [] p = "trades"      -> "/trader/trades"
      [] p = "earnings"    -> "/trader/earnings"
      [] p = "strategy"    -> "/trader/strategy"
      [] p = "subscribers" -> "/trader/subscribers"
      [] p = "submit"      -> "/trader/submit"
TraderOverviewPage    == {TraderRoute(p) : p \in TraderSidebar}
TraderPerformancePage == {TraderRoute(p) : p \in TraderSidebar}
TraderTradeLogPage    == {TraderRoute(p) : p \in TraderSidebar}
TraderEarningsPage    == {}
TraderStrategyPage    == {}
TraderSubscribersPage == {}
TraderSubmitStrategyPage == {}

-----------------------------------------------------------------------------
(***************************************************************************)
(* The routes of App, and their guards.                                    *)
(***************************************************************************)
Open ==
    {"/", "/waitlist", "/join-waitlist", "/how-it-works", "/pricing", "/open-source",
     "/privacy", "/terms", "/docs", "/docs/:id", "/blog", "/blog/:slug", "/home",
     "/submit-strategy", "/contact", "/strategies", "/strategies/:id", "/connect"}
PublicOnly == {"/signup", "/login", "/forgot-password", "/reset-password"}
Protected ==
    {"/dashboard", "/2fa-setup", "/admin", "/vaults", "/trades", "/trades/active",
     "/analytics", "/settings/risk", "/settings/notifications", "/settings/account",
     "/referral", "/trader", "/trader/performance", "/trader/trades",
     "/trader/earnings", "/trader/strategy", "/trader/subscribers", "/trader/submit"}
Routes == Open \cup PublicOnly \cup Protected

\* The page is there: a guard shows nothing while the session is being asked for.
ProtectedRoute  == path \in Protected  => ~loading /\ user # None
PublicOnlyRouteAtOnce == path \in PublicOnly => user = None
PublicOnlyRoute == path \in PublicOnly => ~loading /\ user = None
Shown == path \in Routes /\ ProtectedRoute /\ PublicOnlyRoute

Links ==
    CASE path \in {"/", "/waitlist"}  -> Waitlist
      [] path = "/join-waitlist"      -> JoinWaitlist
      [] path = "/how-it-works"       -> HowItWorksPage
      [] path = "/pricing"            -> PricingPage
      [] path = "/open-source"        -> OpenSourcePage
      [] path \in {"/signup", "/login"} -> SignupPage
      [] path = "/forgot-password"    -> ForgotPasswordPage
      [] path = "/reset-password"     -> ResetPasswordPage
      [] path = "/privacy"            -> PrivacyPage
      [] path = "/terms"              -> TermsPage
      [] path \in {"/docs", "/docs/:id"} -> DocsPage
      [] path = "/blog"               -> BlogPage
      [] path = "/blog/:slug"         -> BlogPostPage
      [] path = "/home"               -> HomePage
      [] path = "/submit-strategy"    -> SubmitStrategyPage
      [] path = "/contact"            -> ContactPage
      [] path = "/dashboard"          -> DashboardPage
      [] path = "/2fa-setup"          -> TwoFactorSetupPage
      [] path = "/admin"              -> AdminPage
      [] path = "/strategies"         -> StrategiesPage
      [] path = "/strategies/:id"     -> StrategyDetailPage
      [] path = "/connect"            -> ConnectPage
      [] path = "/vaults"             -> VaultsPage
      [] path = "/trades"             -> TradeHistoryPage
      [] path = "/trades/active"      -> ActiveTradesPage
      [] path = "/analytics"          -> AnalyticsPage
      [] path = "/settings/risk"      -> RiskSettingsPage
      [] path = "/settings/notifications" -> NotificationSettingsPage
      [] path = "/settings/account"   -> AccountSettingsPage
      [] path = "/referral"           -> ReferralPage
      [] path = "/trader"             -> TraderOverviewPage
      [] path = "/trader/performance" -> TraderPerformancePage
      [] path = "/trader/trades"      -> TraderTradeLogPage
      [] path = "/trader/earnings"    -> TraderEarningsPage
      [] path = "/trader/strategy"    -> TraderStrategyPage
      [] path = "/trader/subscribers" -> TraderSubscribersPage
      [] path = "/trader/submit"      -> TraderSubmitStrategyPage

\* Navbar, with its sign-out button, is on four pages.
HasNavbar == path \in {"/home", "/connect", "/strategies", "/strategies/:id"}

-----------------------------------------------------------------------------
(***************************************************************************)
(* Moving about.                                                           *)
(***************************************************************************)
FirstTab(p) ==
    CASE p \in {"/dashboard", "/admin"} -> "overview"
      [] p = "/login"     -> "login"
      [] p = "/signup"    -> "signup"
      [] p = "/2fa-setup" -> "password"
      [] \E t \in TraderSidebar : p = TraderRoute(t) ->
            CHOOSE t \in TraderSidebar : p = TraderRoute(t)
      [] OTHER -> "first"

\* Where the guards let u come to rest once the session is known.
Landing(p, u) ==
    CASE p \in Protected /\ u = None  -> "/login"
      [] p \in PublicOnly /\ u # None -> "/dashboard"
      [] OTHER -> p

\* The address becomes p, within the application, for user u, with the
\* requests rs on the way.  A page that is left forgets its state.
Go(p, u, rs) ==
    /\ user' = u
    /\ path' = IF loading' THEN p ELSE Landing(p, u)
    /\ IF path' = path
       THEN tab' = tab /\ busy' = busy /\ asked' = rs
       ELSE /\ tab' = FirstTab(path') /\ busy' = FALSE
            /\ asked' = {[r EXCEPT !.here = FALSE] : r \in rs}

\* The application starts anew at p; what was on its way is forgotten.
Load(p, c) ==
    /\ path' = p /\ tab' = FirstTab(p) /\ busy' = FALSE
    /\ user' = None /\ loading' = TRUE
    /\ cookie' = c
    /\ asked' = {[kind |-> "session", who |-> c, here |-> TRUE]}

Type(p) == Load(p, cookie) /\ UNCHANGED <<verified, secured>>

Follow(p) ==
    /\ UNCHANGED <<loading, cookie, verified, secured>>
    /\ Go(p, user, asked)

\* The sidebars of dashboard, administration and trader, the two tabs of the
\* sign-in page, and the step of two-factor from the code's picture to its entry.
SetTab(t) ==
    /\ Shown
    /\ \/ path = "/dashboard" /\ t \in DashboardTabs
       \/ path = "/admin" /\ t \in AdminTabs
       \/ path \in {"/signup", "/login"} /\ t \in {"signup", "login"}
       \/ path = "/2fa-setup" /\ tab = "qr" /\ t = "verify"
       \/ /\ path \in {"/trader/earnings", "/trader/strategy", "/trader/subscribers",
                       "/trader/submit"}
          /\ t \in TraderSidebar
    /\ tab' = t
    /\ UNCHANGED <<path, busy, user, loading, cookie, asked, verified, secured>>

-----------------------------------------------------------------------------
(***************************************************************************)
(* Requests.                                                               *)
(***************************************************************************)
Ask(k, a) ==
    /\ Cardinality(asked) < MaxAsked
    /\ asked' = asked \cup {[kind |-> k, who |-> a, here |-> TRUE]}

\* The button of the page shown: it waits for the answer.
Submit(k, a) ==
    /\ Shown /\ ~busy
    /\ \/ k = "signup" /\ path \in {"/signup", "/login"} /\ tab = "signup"
       \/ k = "signin" /\ path \in {"/signup", "/login"} /\ tab = "login"
       \/ k = "phantom" /\ path \in {"/signup", "/login"}
       \/ k = "forgot" /\ path = "/forgot-password" /\ tab = "first"
       \/ k = "reset" /\ path = "/reset-password" /\ tab = "first"
       \/ k = "enable" /\ path = "/2fa-setup" /\ tab = "password"
       \/ k = "verify" /\ path = "/2fa-setup" /\ tab = "verify"
    /\ Ask(k, a)
    /\ busy' = TRUE
    /\ UNCHANGED <<path, tab, user, loading, cookie, verified, secured>>

SignOut ==
    /\ Shown /\ HasNavbar /\ user # None
    /\ Ask("signout", user.who)
    /\ UNCHANGED <<path, tab, busy, user, loading, cookie, verified, secured>>

User(a) == [who |-> a, twoFactor |-> a \in secured]

\* The session asked for when the application started.
SessionAnswered(r) ==
    /\ r.kind = "session"
    /\ loading' = FALSE
    /\ \E u \in {None} \cup {User(a) : a \in {r.who} \ {None}} : Go(path, u, asked \ {r})
    /\ UNCHANGED <<cookie, verified, secured>>

\* A new account gets no session before its email is verified; AuthContext
\* takes the user of the answer all the same.
SignUpAnswered(r) ==
    /\ r.kind = "signup"
    /\ UNCHANGED <<loading, cookie, verified, secured>>
    /\ Go("/dashboard", User(r.who), asked \ {r})

SignInAnswered(r) ==
    /\ r.kind = "signin" /\ r.who \in verified \ secured
    /\ cookie' = r.who
    /\ UNCHANGED <<loading, verified, secured>>
    /\ Go("/dashboard", User(r.who), asked \ {r})

\* The auth client sends an account with two-factor to its twoFactorPage.
TwoFactorAsked(r) ==
    /\ r.kind = "signin" /\ r.who \in verified \cap secured
    /\ Load("/2fa", cookie)
    /\ UNCHANGED <<verified, secured>>

\* The answer is an error.  Phantom has no other: its nonce is asked for with
\* GET and no wallet, where the server has a POST endpoint.
Refused(r) ==
    /\ r.kind \notin {"session", "signout"}
    /\ busy' = (busy /\ ~r.here)
    /\ asked' = asked \ {r}
    /\ UNCHANGED <<path, tab, user, loading, cookie, verified, secured>>

\* No answer: only phantom and forgot catch that, the others stay busy.
Lost(r) ==
    /\ r.kind \notin {"session", "phantom", "forgot"}
    /\ asked' = asked \ {r}
    /\ UNCHANGED <<path, tab, busy, user, loading, cookie, verified, secured>>

\* The error of an answer to a sign-out is not looked at.
SignOutAnswered(r) ==
    /\ r.kind = "signout"
    /\ cookie' \in {None, cookie}
    /\ UNCHANGED <<loading, verified, secured>>
    /\ Go("/", None, asked \ {r})

\* The steps of the password and two-factor pages.
StepAnswered(r) ==
    /\ r.kind \in {"forgot", "reset", "enable", "verify"}
    /\ r.kind \in {"enable", "verify"} => cookie # None
    /\ secured' = IF r.kind = "verify" THEN secured \cup {cookie} ELSE secured
    /\ IF r.here
       THEN /\ busy' = FALSE
            /\ tab' = CASE r.kind = "forgot" -> "sent"
                        [] r.kind = "enable" -> "qr"
                        [] OTHER -> "done"
       ELSE UNCHANGED <<tab, busy>>
    /\ asked' = asked \ {r}
    /\ UNCHANGED <<path, user, loading, cookie, verified>>

Answer(r) ==
    \/ SessionAnswered(r) \/ SignUpAnswered(r) \/ SignInAnswered(r) \/ TwoFactorAsked(r)
    \/ Refused(r) \/ Lost(r) \/ SignOutAnswered(r) \/ StepAnswered(r)

\* The link of the verification mail, and a social sign-in, come back to the
\* site with a session.
VerifyEmail(a) ==
    /\ a \notin verified
    /\ verified' = verified \cup {a}
    /\ Load("/dashboard", a)
    /\ UNCHANGED secured
SocialSignIn(a) ==
    /\ Shown /\ path \in {"/signup", "/login"}
    /\ Load("/dashboard", a)
    /\ UNCHANGED <<verified, secured>>

-----------------------------------------------------------------------------
Init ==
    /\ verified \in SUBSET Accounts /\ secured = {}
    /\ cookie \in {None} \cup verified
    /\ path \in Routes /\ tab = FirstTab(path) /\ busy = FALSE
    /\ user = None /\ loading = TRUE
    /\ asked = {[kind |-> "session", who |-> cookie, here |-> TRUE]}

Next ==
    \/ \E p \in Routes : Type(p)
    \/ Shown /\ \E p \in Links : Follow(p)
    \/ \E t \in DashboardTabs \cup AdminTabs \cup TraderSidebar
                  \cup {"signup", "login", "verify"} : SetTab(t)
    \/ \E k \in {"signup", "signin", "phantom", "forgot", "reset", "enable", "verify"},
          a \in Accounts : Submit(k, a)
    \/ SignOut
    \/ \E r \in asked : Answer(r)
    \/ \E a \in Accounts : VerifyEmail(a) \/ SocialSignIn(a)

Spec == Init /\ [][Next]_vars

-----------------------------------------------------------------------------
\* Every address the application comes to has a page (App's routes have no
\* page for the others), but for the one the auth client is given for
\* two-factor.
LinksHavePages == path \in Routes \cup {"/2fa"}

\* While the session of the start is still being asked for nobody is signed in
\* and nobody can try to: its late answer takes nobody's place (AuthContext's
\* effect, ProtectedRoute, PublicOnlyRoute).
LoadingMeansNobody ==
    loading => user = None /\ \A r \in asked : r.kind = "session"

\* Links and guards lead the reader somewhere, whenever the session is known.
SiteSound == LinksHavePages /\ LoadingMeansNobody
=============================================================================
