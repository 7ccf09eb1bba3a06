----------------------------- MODULE Site_proofs -----------------------------
(***************************************************************************)
(* What MCSite checks on a small instance, proved for any accounts, names, *)
(* amounts, texts and bounds: one invariant for each of its parts, which   *)
(* the steps of the others do not touch.                                   *)
(***************************************************************************)
EXTENDS MCSite, Induction, TLAPS

-----------------------------------------------------------------------------
(* The addresses and the session (Site).                                   *)

Requests == \A r \in asked : "kind" \in DOMAIN r

PagesInv == Requests /\ Pages!LoadingMeansNobody

LEMMA PagesInit == Pages!Init => PagesInv
  BY DEF Pages!Init, PagesInv, Requests, Pages!LoadingMeansNobody

\* A request whose page is left stays the request it is.
LEMMA LeftBehind ==
    ASSUME NEW r, "kind" \in DOMAIN r
    PROVE  /\ "kind" \in DOMAIN [r EXCEPT !.here = FALSE]
           /\ [r EXCEPT !.here = FALSE].kind = r.kind
  OBVIOUS

\* An application that starts anew knows nobody.
LEMMA LoadKeeps ==
    ASSUME NEW p, NEW c, Pages!Load(p, c)
    PROVE  PagesInv'
  BY DEF Pages!Load, PagesInv, Requests, Pages!LoadingMeansNobody

\* Moving on keeps the requests there are, here or left behind.
LEMMA GoKeeps ==
    ASSUME PagesInv, NEW p, NEW u, NEW rs, rs \subseteq asked, Pages!Go(p, u, rs),
           loading' => loading /\ u = user
    PROVE  PagesInv'
  <1>1. \A q \in asked' : \E r \in rs : q = r \/ q = [r EXCEPT !.here = FALSE]
    BY DEF Pages!Go
  <1>2. \A q \in asked' : /\ "kind" \in DOMAIN q
                          /\ \E r \in asked : q.kind = r.kind
    <2> SUFFICES ASSUME NEW q \in asked'
                 PROVE  /\ "kind" \in DOMAIN q
                        /\ \E r \in asked : q.kind = r.kind
      OBVIOUS
    <2>1. PICK r \in asked : q = r \/ q = [r EXCEPT !.here = FALSE]
      BY <1>1
    <2>2. "kind" \in DOMAIN r
      BY DEF PagesInv, Requests
    <2>3. CASE q = r
      BY <2>2, <2>3
    <2>4. CASE q = [r EXCEPT !.here = FALSE]
      BY <2>2, <2>4, LeftBehind
    <2> QED
      BY <2>1, <2>3, <2>4
  <1>3. user' = u
    BY DEF Pages!Go
  <1> QED
    BY <1>2, <1>3 DEF PagesInv, Requests, Pages!LoadingMeansNobody

\* Fewer requests and the same user.
LEMMA FewerKeeps ==
    ASSUME PagesInv, asked' \subseteq asked, UNCHANGED user, loading' => loading
    PROVE  PagesInv'
  BY DEF PagesInv, Requests, Pages!LoadingMeansNobody

\* A request other than for the session is made or answered once the session
\* is known: nothing is loading.
LEMMA AskKeeps ==
    ASSUME PagesInv, NEW k, NEW a, Pages!Ask(k, a), ~loading, UNCHANGED loading
    PROVE  PagesInv'
  BY DEF Pages!Ask, PagesInv, Requests, Pages!LoadingMeansNobody

LEMMA AnswerKeeps ==
    ASSUME PagesInv, NEW r \in asked, Pages!Answer(r)
    PROVE  PagesInv'
  <1>0. asked \ {r} \subseteq asked
    OBVIOUS
  <1>1. CASE Pages!SessionAnswered(r)
    BY <1>0, <1>1, GoKeeps DEF Pages!SessionAnswered
  <1>2. CASE r.kind = "session" /\ ~Pages!SessionAnswered(r)
    BY <1>2 DEF Pages!Answer, Pages!SignUpAnswered, Pages!SignInAnswered,
                Pages!TwoFactorAsked, Pages!Refused, Pages!Lost,
                Pages!SignOutAnswered, Pages!StepAnswered
  <1>3. CASE r.kind # "session"
    <2>1. ~loading
      BY <1>3 DEF PagesInv, Pages!LoadingMeansNobody
    <2>2. CASE Pages!SignUpAnswered(r)
      BY <1>0, <2>1, <2>2, GoKeeps DEF Pages!SignUpAnswered
    <2>3. CASE Pages!SignInAnswered(r)
      BY <1>0, <2>1, <2>3, GoKeeps DEF Pages!SignInAnswered
    <2>4. CASE Pages!TwoFactorAsked(r)
      BY <2>4, LoadKeeps DEF Pages!TwoFactorAsked
    <2>5. CASE Pages!Refused(r)
      BY <1>0, <2>5, FewerKeeps DEF Pages!Refused
    <2>6. CASE Pages!Lost(r)
      BY <1>0, <2>6, FewerKeeps DEF Pages!Lost
    <2>7. CASE Pages!SignOutAnswered(r)
      BY <1>0, <2>1, <2>7, GoKeeps DEF Pages!SignOutAnswered
    <2>8. CASE Pages!StepAnswered(r)
      BY <1>0, <2>8, FewerKeeps DEF Pages!StepAnswered
    <2> QED
      BY <1>3, <2>2, <2>3, <2>4, <2>5, <2>6, <2>7, <2>8 DEF Pages!Answer, Pages!SessionAnswered
  <1> QED
    BY <1>1, <1>2, <1>3

LEMMA PagesStep == PagesInv /\ [Pages!Next]_(Pages!vars) => PagesInv'
  <1> SUFFICES ASSUME PagesInv, [Pages!Next]_(Pages!vars) PROVE PagesInv'
    OBVIOUS
  <1>1. ASSUME NEW p, Pages!Type(p) PROVE PagesInv'
    BY <1>1, LoadKeeps DEF Pages!Type
  <1>2. ASSUME NEW p, Pages!Follow(p) PROVE PagesInv'
    BY <1>2, GoKeeps DEF Pages!Follow
  <1>3. ASSUME NEW t, Pages!SetTab(t) PROVE PagesInv'
    BY <1>3, FewerKeeps DEF Pages!SetTab
  <1>4. ASSUME NEW k, NEW a, Pages!Submit(k, a) PROVE PagesInv'
    <2>1. ~loading
      <3>1. path \in Pages!PublicOnly \cup {"/2fa-setup"}
        BY <1>4 DEF Pages!Submit, Pages!PublicOnly
      <3>2. path \in Pages!PublicOnly \cup Pages!Protected
        BY <3>1 DEF Pages!Protected
      <3> QED
        BY <1>4, <3>2 DEF Pages!Submit, Pages!Shown, Pages!ProtectedRoute, Pages!PublicOnlyRoute
    <2> QED
      BY <1>4, <2>1, AskKeeps DEF Pages!Submit
  <1>5. CASE Pages!SignOut
    <2>1. ~loading
      BY <1>5 DEF Pages!SignOut, PagesInv, Pages!LoadingMeansNobody
    <2> QED
      BY <1>5, <2>1, AskKeeps DEF Pages!SignOut
  <1>6. ASSUME NEW r \in asked, Pages!Answer(r) PROVE PagesInv'
    BY <1>6, AnswerKeeps
  <1>7. ASSUME NEW a, Pages!VerifyEmail(a) \/ Pages!SocialSignIn(a) PROVE PagesInv'
    BY <1>7, LoadKeeps DEF Pages!VerifyEmail, Pages!SocialSignIn
  <1>8. CASE UNCHANGED Pages!vars
    BY <1>8, FewerKeeps DEF Pages!vars
  <1> QED
    BY <1>1, <1>2, <1>3, <1>4, <1>5, <1>6, <1>7, <1>8 DEF Pages!Next

\* Wherever the guards or a link lead, there is a page.
LEMMA GoesToPage ==
    ASSUME NEW p, p \in Pages!Routes \cup {"/2fa"}, NEW u, NEW rs, Pages!Go(p, u, rs)
    PROVE  Pages!LinksHavePages'
  <1>1. path' = p \/ path' = Pages!Landing(p, u)
    BY DEF Pages!Go
  <1>2. Pages!Landing(p, u) \in {p, "/login", "/dashboard"}
    BY DEF Pages!Landing
  <1>3. {"/login", "/dashboard"} \subseteq Pages!Routes
    BY DEF Pages!Routes, Pages!PublicOnly, Pages!Protected
  <1> QED
    BY <1>1, <1>2, <1>3 DEF Pages!LinksHavePages

\* The frames, and the pages, lead to pages.
LEMMA FramesLead ==
    /\ Pages!Framed \subseteq Pages!Routes
    /\ Pages!Navbar \subseteq Pages!Routes
    /\ Pages!Footer \subseteq Pages!Routes
    /\ Pages!WaitlistFinalCTA \cup Pages!WaitlistHero \cup Pages!FinalCTA \subseteq Pages!Routes
    /\ {Pages!TraderRoute(p) : p \in Pages!TraderSidebar} \subseteq Pages!Routes
  <1>1. Pages!Open \cup Pages!PublicOnly \cup Pages!Protected = Pages!Routes
    BY DEF Pages!Routes
  <1>2. Pages!Footer \subseteq Pages!Open /\ Pages!WaitlistNavbar \subseteq Pages!Open
    BY DEF Pages!Footer, Pages!WaitlistNavbar, Pages!Open
  <1>3. Pages!Navbar \subseteq Pages!Open \cup Pages!PublicOnly
    BY DEF Pages!Navbar, Pages!Open, Pages!PublicOnly
  <1>4. Pages!WaitlistFinalCTA \cup Pages!WaitlistHero \cup Pages!FinalCTA \subseteq Pages!Open
    BY DEF Pages!WaitlistFinalCTA, Pages!WaitlistHero, Pages!FinalCTA, Pages!Open
  <1>5. ASSUME NEW p \in Pages!TraderSidebar PROVE Pages!TraderRoute(p) \in Pages!Protected
    BY DEF Pages!TraderSidebar, Pages!TraderRoute, Pages!Protected
  <1> QED
    BY <1>1, <1>2, <1>3, <1>4, <1>5 DEF Pages!Framed

LEMMA PagesLead ==
    /\ Pages!Waitlist \cup Pages!JoinWaitlist \cup Pages!HowItWorksPage \cup Pages!PricingPage
           \cup Pages!OpenSourcePage \cup Pages!PrivacyPage \cup Pages!TermsPage
           \cup Pages!ContactPage \cup Pages!SubmitStrategyPage \subseteq Pages!Routes
    /\ Pages!HomePage \cup Pages!BlogPage \cup Pages!BlogPostPage \cup Pages!DocsPage
           \cup Pages!StrategiesPage \cup Pages!StrategyDetailPage
           \cup Pages!ConnectPage \subseteq Pages!Routes
    /\ Pages!SignupPage \cup Pages!ForgotPasswordPage \cup Pages!ResetPasswordPage
           \cup Pages!TwoFactorSetupPage \cup Pages!DashboardPage \subseteq Pages!Routes
    /\ Pages!VaultsPage \cup Pages!TradeHistoryPage \cup Pages!ActiveTradesPage
           \cup Pages!AnalyticsPage \cup Pages!RiskSettingsPage \cup Pages!AccountSettingsPage
           \cup Pages!ReferralPage \cup Pages!NotificationSettingsPage
           \cup Pages!AdminPage \subseteq Pages!Routes
    /\ Pages!TraderOverviewPage \cup Pages!TraderPerformancePage \cup Pages!TraderTradeLogPage
           \cup Pages!TraderEarningsPage \cup Pages!TraderStrategyPage
           \cup Pages!TraderSubscribersPage \cup Pages!TraderSubmitStrategyPage \subseteq Pages!Routes
  <1>1. {"/join-waitlist", "/blog", "/blog/:slug", "/signup", "/", "/docs/:id", "/strategies/:id",
         "/strategies", "/forgot-password", "/login", "/dashboard", "/2fa-setup",
         "/referral"} \subseteq Pages!Routes
    BY DEF Pages!Routes, Pages!Open, Pages!PublicOnly, Pages!Protected
  <1>2. /\ Pages!Waitlist \cup Pages!JoinWaitlist \cup Pages!HowItWorksPage \cup Pages!PricingPage
               \cup Pages!OpenSourcePage \cup Pages!PrivacyPage \cup Pages!TermsPage
               \cup Pages!ContactPage \cup Pages!SubmitStrategyPage \subseteq Pages!Routes
    BY <1>1, FramesLead
    DEF Pages!Waitlist, Pages!JoinWaitlist, Pages!HowItWorksPage, Pages!PricingPage,
        Pages!OpenSourcePage, Pages!PrivacyPage, Pages!TermsPage, Pages!ContactPage,
        Pages!SubmitStrategyPage
  <1>3. Pages!HomePage \cup Pages!BlogPage \cup Pages!BlogPostPage \cup Pages!DocsPage
            \cup Pages!StrategiesPage \cup Pages!StrategyDetailPage
            \cup Pages!ConnectPage \subseteq Pages!Routes
    BY <1>1, FramesLead
    DEF Pages!HomePage, Pages!BlogPage, Pages!BlogPostPage, Pages!DocsPage, Pages!DocsHeader,
        Pages!DocsSidebar, Pages!StrategiesPage, Pages!StrategyDetailPage, Pages!ConnectPage
  <1>4. Pages!SignupPage \cup Pages!ForgotPasswordPage \cup Pages!ResetPasswordPage
            \cup Pages!TwoFactorSetupPage \cup Pages!DashboardPage \subseteq Pages!Routes
    <2>1. Pages!DashboardPage \subseteq {"/2fa-setup", "/login", "/referral"}
      BY DEF Pages!DashboardPage
    <2> QED
      BY <1>1, <2>1, FramesLead
      DEF Pages!SignupPage, Pages!ForgotPasswordPage, Pages!ResetPasswordPage,
          Pages!TwoFactorSetupPage
  <1>5. Pages!VaultsPage \cup Pages!TradeHistoryPage \cup Pages!ActiveTradesPage
            \cup Pages!AnalyticsPage \cup Pages!RiskSettingsPage \cup Pages!AccountSettingsPage
            \cup Pages!ReferralPage \cup Pages!NotificationSettingsPage
            \cup Pages!AdminPage \subseteq Pages!Routes
    BY <1>1
    DEF Pages!VaultsPage, Pages!TradeHistoryPage, Pages!ActiveTradesPage, Pages!AnalyticsPage,
        Pages!RiskSettingsPage, Pages!AccountSettingsPage, Pages!ReferralPage,
        Pages!NotificationSettingsPage, Pages!AdminPage
  <1>6. Pages!TraderOverviewPage \cup Pages!TraderPerformancePage \cup Pages!TraderTradeLogPage
            \cup Pages!TraderEarningsPage \cup Pages!TraderStrategyPage
            \cup Pages!TraderSubscribersPage \cup Pages!TraderSubmitStrategyPage \subseteq Pages!Routes
    BY FramesLead
    DEF Pages!TraderOverviewPage, Pages!TraderPerformancePage, Pages!TraderTradeLogPage,
        Pages!TraderEarningsPage, Pages!TraderStrategyPage, Pages!TraderSubscribersPage,
        Pages!TraderSubmitStrategyPage
  <1> QED
    BY <1>2, <1>3, <1>4, <1>5, <1>6

LEMMA LinksLead ==
    ASSUME Pages!Shown
    PROVE  Pages!Links \subseteq Pages!Routes
  <1>1. path \in Pages!Open \cup Pages!PublicOnly \cup Pages!Protected
    BY DEF Pages!Shown, Pages!Routes
  <1>2. CASE path \in Pages!Open
    BY <1>2, PagesLead DEF Pages!Open, Pages!Links
  <1>3. CASE path \in Pages!PublicOnly
    BY <1>3, PagesLead DEF Pages!PublicOnly, Pages!Links
  <1>4. CASE path \in Pages!Protected
    BY <1>4, PagesLead DEF Pages!Protected, Pages!Links
  <1> QED
    BY <1>1, <1>2, <1>3, <1>4

LEMMA LeadsStep == Pages!LinksHavePages /\ [Pages!Next]_(Pages!vars) => Pages!LinksHavePages'
  <1> SUFFICES ASSUME Pages!LinksHavePages, [Pages!Next]_(Pages!vars)
               PROVE  Pages!LinksHavePages'
    OBVIOUS
  <1>a. ASSUME UNCHANGED path PROVE Pages!LinksHavePages'
    BY <1>a DEF Pages!LinksHavePages
  <1>b. {"/", "/dashboard"} \subseteq Pages!Routes
    BY DEF Pages!Routes, Pages!Open, Pages!Protected
  <1>1. ASSUME NEW p \in Pages!Routes, Pages!Type(p) PROVE Pages!LinksHavePages'
    BY <1>1 DEF Pages!Type, Pages!Load, Pages!LinksHavePages
  <1>2. ASSUME Pages!Shown, NEW p \in Pages!Links, Pages!Follow(p) PROVE Pages!LinksHavePages'
    BY <1>2, LinksLead, GoesToPage DEF Pages!Follow
  <1>3. ASSUME NEW t, Pages!SetTab(t) PROVE Pages!LinksHavePages'
    BY <1>3, <1>a DEF Pages!SetTab
  <1>4. ASSUME NEW k, NEW a, Pages!Submit(k, a) \/ Pages!SignOut PROVE Pages!LinksHavePages'
    BY <1>4, <1>a DEF Pages!Submit, Pages!SignOut
  <1>5. ASSUME NEW r \in asked, Pages!Answer(r) PROVE Pages!LinksHavePages'
    <2>1. CASE Pages!SessionAnswered(r)
      BY <2>1, GoesToPage DEF Pages!SessionAnswered, Pages!LinksHavePages
    <2>2. CASE Pages!SignUpAnswered(r) \/ Pages!SignInAnswered(r) \/ Pages!SignOutAnswered(r)
      BY <2>2, <1>b, GoesToPage
      DEF Pages!SignUpAnswered, Pages!SignInAnswered, Pages!SignOutAnswered
    <2>3. CASE Pages!TwoFactorAsked(r)
      BY <2>3 DEF Pages!TwoFactorAsked, Pages!Load, Pages!LinksHavePages
    <2>4. CASE Pages!Refused(r) \/ Pages!Lost(r) \/ Pages!StepAnswered(r)
      BY <2>4, <1>a DEF Pages!Refused, Pages!Lost, Pages!StepAnswered
    <2> QED
      BY <1>5, <2>1, <2>2, <2>3, <2>4 DEF Pages!Answer
  <1>6. ASSUME NEW a, Pages!VerifyEmail(a) \/ Pages!SocialSignIn(a) PROVE Pages!LinksHavePages'
    BY <1>6, <1>b DEF Pages!VerifyEmail, Pages!SocialSignIn, Pages!Load, Pages!LinksHavePages
  <1>7. CASE UNCHANGED Pages!vars
    BY <1>7, <1>a DEF Pages!vars
  <1> QED
    BY <1>1, <1>2, <1>3, <1>4, <1>5, <1>6, <1>7 DEF Pages!Next

\* Every address the application comes to has a page, but for the one of
\* two-factor; and while the session of the start is being asked for, nobody is
\* signed in and no other request is on its way, so its answer, however late,
\* overwrites no sign-in (AuthContext, ProtectedRoute, PublicOnlyRoute).
THEOREM SiteIsSound == Spec => []SiteSound
  <1> DEFINE Inv == part = "site" => PagesInv /\ Pages!LinksHavePages
  <1>1. Init => Inv
    <2>1. Pages!Init => Pages!LinksHavePages
      BY DEF Pages!Init, Pages!LinksHavePages
    <2> QED
      BY <2>1, PagesInit DEF Init
  <1>2. Inv /\ [Next]_vars => Inv'
    <2> SUFFICES ASSUME Inv, [Next]_vars, part' = "site"
                 PROVE  (PagesInv /\ Pages!LinksHavePages)'
      OBVIOUS
    <2>1. part = "site" /\ [Pages!Next]_(Pages!vars)
      BY DEF Next, InSite, InForm, InCash, InList, InSet, vars, siteVars, Pages!vars
    <2> QED
      BY <2>1, PagesStep, LeadsStep
  <1>3. Inv => SiteSound
    BY DEF SiteSound, Pages!SiteSound, PagesInv
  <1> QED
    BY <1>1, <1>2, <1>3, PTL DEF Spec

-----------------------------------------------------------------------------
(* The forms (Forms).                                                      *)

\* The button waits for its submission: unless a strategy was sent without it, at
\* most one is on its way, no error is shown meanwhile, and the page of thanks
\* sends no more.
Counted == sent \in Nat /\ stored \in Nat

OneAtATime ==
    /\ Counted
    /\ submitting \in BOOLEAN /\ submitted \in BOOLEAN /\ entered \in BOOLEAN
    /\ ~entered => /\ submitting => sent = 1 /\ ~failed /\ ~submitted
                   /\ ~submitting => sent = 0

FormInv == OneAtATime /\ Form!ThanksMeansStored

LEMMA FormInit == Form!Init => FormInv
  <1> SUFFICES ASSUME Form!Init PROVE FormInv
    OBVIOUS
  <1>1. Counted /\ sent = 0
    BY DEF Form!Init, Counted
  <1> QED
    BY <1>1, Zenon DEF Form!Init, FormInv, OneAtATime, Form!ThanksMeansStored

\* Typing and the check of a username leave the submission alone.
LEMMA FieldsKeep ==
    ASSUME FormInv, UNCHANGED <<submitting, failed, submitted, entered, sent, stored>>
    PROVE  FormInv'
  BY DEF FormInv, OneAtATime, Counted, Form!ThanksMeansStored

\* A submission is one more, with the button the only one.
LEMMA SubmitKeeps == FormInv /\ Form!HandleSubmit => FormInv'
  <1> SUFFICES ASSUME FormInv, Form!HandleSubmit PROVE FormInv'
    OBVIOUS
  <1>1. Counted /\ sent' = sent + 1 /\ stored' = stored
    BY DEF FormInv, OneAtATime, Form!HandleSubmit
  <1>2. Counted' /\ sent' > 0 /\ (sent = 0 => sent' = 1)
    BY ONLY <1>1 DEF Counted
  <1>3. submitting' = TRUE /\ failed' = FALSE /\ submitted' = submitted /\ submitted = FALSE
    BY Zenon DEF Form!HandleSubmit, FormInv, OneAtATime
  <1>4. entered' \in BOOLEAN /\ (~entered' => ~entered /\ sent = 0)
    BY Zenon DEF Form!HandleSubmit, Form!LoneField, FormInv, OneAtATime
  <1> QED
    BY <1>2, <1>3, <1>4, Zenon DEF FormInv, OneAtATime, Form!ThanksMeansStored

\* The store's answer ends the wait.
LEMMA CreatedKeeps == FormInv /\ Form!Created => FormInv'
  <1> SUFFICES ASSUME FormInv, Form!Created PROVE FormInv'
    OBVIOUS
  <1>1. Counted /\ sent > 0 /\ sent' = sent - 1 /\ stored' = stored + 1
    BY DEF FormInv, OneAtATime, Form!Created
  <1>2. Counted' /\ stored' > 0 /\ sent # 0 /\ (sent = 1 => sent' = 0)
    BY ONLY <1>1 DEF Counted
  <1>3. submitting' = FALSE /\ submitted' = TRUE /\ failed' = failed /\ entered' = entered
    BY DEF Form!Created
  <1>4. ~entered => sent' = 0 /\ ~failed
    BY <1>2, Zenon DEF FormInv, OneAtATime
  <1>5. entered' \in BOOLEAN
    BY <1>3, Zenon DEF FormInv, OneAtATime
  <1> QED
    BY <1>2, <1>3, <1>4, <1>5, Zenon DEF FormInv, OneAtATime, Form!ThanksMeansStored

LEMMA NotCreatedKeeps == FormInv /\ Form!NotCreated => FormInv'
  <1> SUFFICES ASSUME FormInv, Form!NotCreated PROVE FormInv'
    OBVIOUS
  <1>1. Counted /\ sent > 0 /\ sent' = sent - 1 /\ stored' \in {stored, stored + 1}
    BY DEF FormInv, OneAtATime, Form!NotCreated
  <1>2. Counted' /\ sent # 0 /\ (sent = 1 => sent' = 0) /\ (stored > 0 => stored' > 0)
    BY ONLY <1>1 DEF Counted
  <1>3. submitting' = FALSE /\ submitted' = submitted /\ entered' = entered
    BY DEF Form!NotCreated, Form!AfterError
  <1>4. /\ ~entered => sent' = 0 /\ ~submitted
        /\ submitted => stored' > 0
    BY <1>2, Zenon DEF FormInv, OneAtATime, Form!ThanksMeansStored
  <1>5. entered' \in BOOLEAN /\ submitted' \in BOOLEAN
    BY <1>3, Zenon DEF FormInv, OneAtATime
  <1> QED
    BY <1>2, <1>3, <1>4, <1>5, Zenon DEF FormInv, OneAtATime, Form!ThanksMeansStored

LEMMA FormStep == FormInv /\ [Form!Next]_(Form!vars) => FormInv'
  <1> SUFFICES ASSUME FormInv, [Form!Next]_(Form!vars) PROVE FormInv'
    OBVIOUS
  <1>1. ASSUME NEW field,
               Form!TypeStrategy(field) \/ Form!TypeWaitlist(field) \/ Form!TypeContact(field)
        PROVE  FormInv'
    <2>1. Form!Turn(field)
      BY <1>1 DEF Form!TypeStrategy, Form!TypeWaitlist, Form!TypeContact
    <2> QED
      BY <2>1, FieldsKeep DEF Form!Turn
  <1>2. ASSUME NEW n \in Names, Form!HandleUsernameChange(n) PROVE FormInv'
    BY <1>2, FieldsKeep DEF Form!HandleUsernameChange
  <1>3. CASE Form!StartCheck
    BY <1>3, FieldsKeep DEF Form!StartCheck
  <1>4. ASSUME NEW i \in DOMAIN checks, Form!Checked(i) PROVE FormInv'
    BY <1>4, FieldsKeep DEF Form!Checked
  <1>5. CASE Form!HandleSubmit \/ Form!Created \/ Form!NotCreated
    BY <1>5, SubmitKeeps, CreatedKeeps, NotCreatedKeeps
  <1>6. CASE UNCHANGED Form!vars
    BY <1>6, FieldsKeep DEF Form!vars
  <1> QED
    BY <1>1, <1>2, <1>3, <1>4, <1>5, <1>6 DEF Form!Next

\* A form says thank you only for a record that is stored and waits only for an
\* answer; with no submission of it still on its way and no error shown, unless a
\* strategy was sent without its button (handleSubmit).
THEOREM Thanks == Spec => []ThanksMeansStored
  <1> DEFINE Inv == part = "form" => FormInv
  <1>1. Init => Inv
    BY FormInit DEF Init
  <1>2. Inv /\ [Next]_vars => Inv'
    <2> SUFFICES ASSUME Inv, [Next]_vars, part' = "form" PROVE FormInv'
      OBVIOUS
    <2>1. part = "form" /\ [Form!Next]_(Form!vars)
      BY DEF Next, InSite, InForm, InCash, InList, InSet, vars, formVars, Form!vars
    <2> QED
      BY <2>1, FormStep
  <1>3. Inv => ThanksMeansStored
    BY DEF ThanksMeansStored, Form!ThanksMeansStored, FormInv
  <1> QED
    BY <1>1, <1>2, <1>3, PTL DEF Spec

-----------------------------------------------------------------------------
(* The dialogs that move money (Money).                                    *)

Stages == {"building", "signing", "confirming", "done", "failed"}
Ops    == [kind : Cash!Kinds, amount : Int, id : Nat, stage : Stages]
Steps  == {"idle", "building", "signing", "confirming"}
Modals == [raw : Int, step : Steps, id : Nat]

Typed ==
    /\ balance \in Int
    /\ modal \in [Cash!Kinds -> {None} \cup Modals]
    /\ ops \in Seq(Ops)

\* What the chain moved, if anything, is what an operation was started with: its
\* amount is fixed with the press, not read from the modal.
ChainDid == \A i \in DOMAIN chain : i \in DOMAIN ops /\ chain[i] \in {ops[i].amount, 0}

CashInv == Typed /\ ChainDid /\ Cash!ToldWhatMoved

LEMMA CashInit == Cash!MoneyAssumption /\ Cash!Init => CashInv
  <1> SUFFICES ASSUME Cash!MoneyAssumption, Cash!Init PROVE CashInv
    OBVIOUS
  <1>1. Typed
    BY DEF Cash!MoneyAssumption, Cash!Init, Typed, Cash!Closed
  <1>2. DOMAIN chain = {} /\ told = {}
    BY DEF Cash!Init
  <1> QED
    BY <1>1, <1>2 DEF CashInv, ChainDid, Cash!ToldWhatMoved

\* An operation that reaches another stage keeps its amount.
LEMMA StageKeeps ==
    ASSUME Typed, NEW i \in DOMAIN ops, NEW s \in Stages,
           ops' = [ops EXCEPT ![i].stage = s]
    PROVE  /\ ops' \in Seq(Ops) /\ DOMAIN ops' = DOMAIN ops
           /\ \A j \in DOMAIN ops : ops'[j].amount = ops[j].amount
  <1>1. ops[i] \in Ops
    BY DEF Typed
  <1> DEFINE op == [ops[i] EXCEPT !.stage = s]
  <1>2. op \in Ops /\ op.amount = ops[i].amount
    BY <1>1 DEF Ops
  <1>3. ops' = [ops EXCEPT ![i] = op]
    OBVIOUS
  <1> HIDE DEF op
  <1> QED
    BY <1>2, <1>3 DEF Typed

LEMMA SetStepTyped ==
    ASSUME Typed, NEW i \in DOMAIN ops, NEW s \in Steps
    PROVE  Cash!SetStep(i, s) \in [Cash!Kinds -> {None} \cup Modals]
  <1>0. ops[i] \in Ops
    BY DEF Typed
  <1>1. ops[i].kind \in Cash!Kinds
    BY <1>0 DEF Ops
  <1>2. CASE Cash!Mounted(i)
    <2>1. modal[ops[i].kind] \in Modals
      BY <1>1, <1>2 DEF Cash!Mounted, Cash!Closed, Typed
    <2>2. [modal[ops[i].kind] EXCEPT !.step = s] \in Modals
      BY <2>1 DEF Modals
    <2> QED
      BY <1>1, <1>2, <2>2 DEF Cash!SetStep, Typed
  <1>3. CASE ~Cash!Mounted(i)
    BY <1>3 DEF Cash!SetStep, Typed
  <1> QED
    BY <1>2, <1>3

\* Whatever leaves the operations, the chain and what was told alone.
LEMMA PageKeeps ==
    ASSUME CashInv, UNCHANGED <<ops, chain, told>>,
           balance' \in Int, modal' \in [Cash!Kinds -> {None} \cup Modals]
    PROVE  CashInv'
  BY DEF CashInv, Typed, ChainDid, Cash!ToldWhatMoved

LEMMA TypeAmountKeeps ==
    ASSUME CashInv, NEW k \in Cash!Kinds, NEW a \in Int, Cash!TypeAmount(k, a)
    PROVE  CashInv'
  <1>1. modal[k] \in Modals
    BY DEF Cash!TypeAmount, Cash!Closed, CashInv, Typed
  <1>2. [modal[k] EXCEPT !.raw = a] \in Modals
    BY <1>1 DEF Modals
  <1>3. modal' \in [Cash!Kinds -> {None} \cup Modals]
    BY <1>2 DEF Cash!TypeAmount, CashInv, Typed
  <1> QED
    BY <1>3, PageKeeps DEF Cash!TypeAmount, CashInv, Typed

\* A press fixes the amount of a new operation.
LEMMA ConfirmKeeps ==
    ASSUME CashInv, NEW k \in Cash!Kinds, Cash!HandleConfirm(k)
    PROVE  CashInv'
  <1>1. modal[k] \in Modals
    BY DEF Cash!HandleConfirm, Cash!CanConfirm, Cash!Closed, CashInv, Typed
  <1>2. [modal[k] EXCEPT !.step = "building"] \in Modals
    BY <1>1 DEF Modals, Steps
  <1>3. modal' \in [Cash!Kinds -> {None} \cup Modals]
    BY <1>2 DEF Cash!HandleConfirm, CashInv, Typed
  <1> DEFINE op == [kind |-> k, amount |-> modal[k].raw, id |-> modal[k].id,
                    stage |-> "building"]
  <1>4. op \in Ops
    BY <1>1 DEF Modals, Ops, Stages
  <1>5. ops \in Seq(Ops) /\ ops' = Append(ops, op)
    BY DEF Cash!HandleConfirm, CashInv, Typed
  <1> HIDE DEF op
  <1>6. ops' \in Seq(Ops) /\ \A i \in DOMAIN ops : i \in DOMAIN ops' /\ ops'[i] = ops[i]
    BY <1>4, <1>5
  <1> QED
    BY <1>3, <1>6 DEF Cash!HandleConfirm, CashInv, Typed, ChainDid, Cash!ToldWhatMoved

\* The stages of an operation.
LEMMA OperationKeeps ==
    ASSUME CashInv, NEW i \in DOMAIN ops,
           Cash!Built(i) \/ Cash!Submitted(i) \/ Cash!Confirmed(i) \/ Cash!Done(i) \/ Cash!Failed(i)
    PROVE  CashInv'
  <1> USE DEF CashInv
  <1>0. ops[i] \in Ops
    BY DEF Typed
  <1>1. CASE Cash!Built(i)
    <2>1. modal' \in [Cash!Kinds -> {None} \cup Modals]
      BY <1>1, SetStepTyped DEF Cash!Built, Steps
    <2> QED
      BY <1>1, <2>1, StageKeeps DEF Cash!Built, Stages, Typed, ChainDid, Cash!ToldWhatMoved
  <1>2. CASE Cash!Submitted(i)
    <2>1. DOMAIN chain' = DOMAIN chain \cup {i}
      BY <1>2 DEF Cash!Submitted
    <2>2. i \notin DOMAIN chain /\ chain'[i] \in {ops[i].amount, 0}
      BY <1>2 DEF Cash!Submitted
    <2>3. \A j \in DOMAIN chain : chain'[j] = chain[j]
      BY <1>2 DEF Cash!Submitted
    <2> QED
      BY <1>2, <2>1, <2>2, <2>3 DEF Cash!Submitted, Typed, ChainDid, Cash!ToldWhatMoved
  <1>3. CASE Cash!Confirmed(i)
    <2>1. modal' \in [Cash!Kinds -> {None} \cup Modals]
      BY <1>3, SetStepTyped DEF Cash!Confirmed, Steps
    <2>2. \A t \in told' : t \in told \/ (t.op = i /\ t.amount = ops[i].amount)
      BY <1>3 DEF Cash!Confirmed, Cash!AmountTold
    <2>3. i \in DOMAIN chain /\ chain[i] \in {ops[i].amount, 0}
      BY <1>3 DEF Cash!Confirmed, ChainDid
    <2>4. Cash!ToldWhatMoved'
      BY <1>3, <2>2, <2>3 DEF Cash!Confirmed, Cash!ToldWhatMoved
    <2> QED
      BY <1>3, <2>1, <2>4, StageKeeps DEF Cash!Confirmed, Stages, Typed, ChainDid
  <1>4. CASE Cash!Done(i)
    <2>1. modal' \in [Cash!Kinds -> {None} \cup Modals]
      BY <1>4 DEF Cash!Done, Cash!Closed, Typed
    <2>2. balance' \in Int
      BY <1>4, <1>0 DEF Cash!Done, Cash!Sign, Ops, Typed
    <2> QED
      BY <1>4, <2>1, <2>2, StageKeeps DEF Cash!Done, Stages, Typed, ChainDid, Cash!ToldWhatMoved
  <1>5. CASE Cash!Failed(i)
    <2>1. modal' \in [Cash!Kinds -> {None} \cup Modals]
      BY <1>5, SetStepTyped DEF Cash!Failed, Steps
    <2> QED
      BY <1>5, <2>1, StageKeeps DEF Cash!Failed, Stages, Typed, ChainDid, Cash!ToldWhatMoved
  <1> QED
    BY <1>1, <1>2, <1>3, <1>4, <1>5

LEMMA CashStep == Cash!MoneyAssumption /\ CashInv /\ [Cash!Next]_(Cash!vars) => CashInv'
  <1> SUFFICES ASSUME Cash!MoneyAssumption, CashInv, [Cash!Next]_(Cash!vars) PROVE CashInv'
    OBVIOUS
  <1>0. balance \in Int /\ modal \in [Cash!Kinds -> {None} \cup Modals] /\ Len(ops) \in Nat
    BY DEF CashInv, Typed
  <1>1. CASE Cash!LoadDashboardData
    BY <1>0, <1>1, PageKeeps DEF Cash!LoadDashboardData
  <1>2. CASE Cash!Loaded
    BY <1>0, <1>2, PageKeeps DEF Cash!Loaded, Cash!MoneyAssumption
  <1>3. ASSUME NEW k \in Cash!Kinds, Cash!OpenModal(k) PROVE CashInv'
    <2>1. [raw |-> 0, step |-> "idle", id |-> Len(ops)] \in Modals
      BY <1>0 DEF Modals, Steps
    <2>2. modal' \in [Cash!Kinds -> {None} \cup Modals]
      BY <1>0, <1>3, <2>1 DEF Cash!OpenModal
    <2> QED
      BY <1>0, <1>3, <2>2, PageKeeps DEF Cash!OpenModal
  <1>4. ASSUME NEW k \in Cash!Kinds, Cash!CloseModal(k) PROVE CashInv'
    <2>1. modal' \in [Cash!Kinds -> {None} \cup Modals]
      BY <1>0, <1>4 DEF Cash!CloseModal, Cash!Closed
    <2> QED
      BY <1>0, <1>4, <2>1, PageKeeps DEF Cash!CloseModal
  <1>5. ASSUME NEW k \in Cash!Kinds, Cash!HandleConfirm(k) PROVE CashInv'
    BY <1>5, ConfirmKeeps
  <1>6. ASSUME NEW a \in Amounts, Cash!TypeDeposit(a) PROVE CashInv'
    BY <1>6, TypeAmountKeeps DEF Cash!TypeDeposit, Cash!Kinds, Cash!MoneyAssumption
  <1>7. ASSUME NEW a \in Amounts \cup {balance}, Cash!TypeWithdrawal(a) PROVE CashInv'
    BY <1>0, <1>7, TypeAmountKeeps DEF Cash!TypeWithdrawal, Cash!Kinds, Cash!MoneyAssumption
  <1>8. ASSUME NEW i \in DOMAIN ops,
               Cash!Built(i) \/ Cash!Submitted(i) \/ Cash!Confirmed(i) \/ Cash!Done(i) \/ Cash!Failed(i)
        PROVE  CashInv'
    BY <1>8, OperationKeeps
  <1>9. CASE UNCHANGED Cash!vars
    BY <1>0, <1>9, PageKeeps DEF Cash!vars
  <1> QED
    BY <1>1, <1>2, <1>3, <1>4, <1>5, <1>6, <1>7, <1>8, <1>9 DEF Cash!Next

\* The backend is told of a transaction once it is on the chain, with the
\* amount that moved there unless it failed there (handleConfirm of DepositModal
\* and WithdrawModal).
THEOREM ToldMoved == Spec => []ToldWhatMoved
  <1> DEFINE Inv == part = "cash" => CashInv
  <1>1. Init => Inv
    BY CashInit, ConstantsAssumption DEF Init
  <1>2. Inv /\ [Next]_vars => Inv'
    <2> SUFFICES ASSUME Inv, [Next]_vars, part' = "cash" PROVE CashInv'
      OBVIOUS
    <2>1. part = "cash" /\ [Cash!Next]_(Cash!vars)
      BY DEF Next, InSite, InForm, InCash, InList, InSet, vars, cashVars, Cash!vars
    <2> QED
      BY <2>1, CashStep, ConstantsAssumption
  <1>3. Inv => ToldWhatMoved
    BY DEF ToldWhatMoved, Cash!ToldWhatMoved, CashInv
  <1> QED
    BY <1>1, <1>2, <1>3, PTL DEF Spec

-----------------------------------------------------------------------------
(* The pages where something is set (Settings), one group of variables     *)
(* after the other: the steps of a page leave the others' groups alone.    *)

LabelsTyped ==
    /\ saved \in [Labels -> BOOLEAN] /\ timers \in [Labels -> Nat]
    /\ draft \in [Labels -> Drafts \cup {Empty}] /\ kept \in [Labels -> Drafts \cup {Empty}]

Writes == [mode : Modes, at : {"sent", "kept", "refused"}]

\* The cards are dimmed from the press to the answer: at most one request that
\* sets the mode is on its way, and once it is stored nothing else stored a mode.
OneWrite ==
    /\ saving \in BOOLEAN /\ excused \in BOOLEAN
    /\ writes \in Seq(Writes) /\ Len(writes) <= 1
    /\ \A i \in DOMAIN writes : writes[i].at = "kept" => stored_ = writes[i].mode

SetInv == LabelsTyped /\ OneWrite /\ done \in BOOLEAN /\ Set!SettingsTrue

LEMMA SetInit == Set!Init => SetInv
  <1> SUFFICES ASSUME Set!Init PROVE SetInv
    OBVIOUS
  <1>1. LabelsTyped
    BY DEF Set!Init, LabelsTyped
  <1>a. /\ saving = FALSE /\ excused = TRUE /\ writes = <<>>
        /\ step = 1 /\ done = FALSE
    BY DEF Set!Init
  <1>b. OneWrite
    <2>1. saving \in BOOLEAN /\ excused \in BOOLEAN
      BY <1>a, Zenon
    <2>2. writes \in Seq(Writes) /\ Len(writes) <= 1 /\ DOMAIN writes = {}
      BY <1>a
    <2> QED
      BY <2>1, <2>2 DEF OneWrite
  <1>c. ~saving /\ excused /\ ~done /\ done \in BOOLEAN
    BY <1>a, Zenon
  <1>2. Set!LabelsTrue
    BY DEF Set!Init, Set!LabelsTrue
  <1>3. Set!ModeShown /\ Set!StepsComplete /\ done \in BOOLEAN
    BY <1>a, <1>c DEF Set!ModeShown, Set!StepsComplete, Set!Steps
  <1>4. Set!InputsFollow
    BY DEF Set!Init, Set!InputsFollow
  <1> QED
    BY <1>1, <1>b, <1>2, <1>3, <1>4 DEF SetInv, Set!SettingsTrue

\* A label that is left alone, and one that is typed, pressed or timed out.
LabelsInv == LabelsTyped /\ Set!LabelsTrue
LEMMA LabelsStep ==
    ASSUME LabelsInv, NEW l \in Labels,
           \/ UNCHANGED Set!labelVars \/ Set!Save(l) \/ Set!SavedOver(l)
           \/ \E t \in Drafts : Set!Type(l, t)
    PROVE  LabelsInv'
  <1> USE DEF LabelsInv, LabelsTyped
  <1>1. CASE UNCHANGED Set!labelVars
    BY <1>1 DEF Set!labelVars, Set!LabelsTrue
  <1>2. CASE Set!Save(l)
    <2>1. timers[l] + 1 \in Nat /\ timers[l] + 1 > 0
      OBVIOUS
    <2> QED
      BY <1>2, <2>1 DEF Set!Save, Set!LabelsTrue
  <1>3. CASE Set!SavedOver(l)
    <2>1. timers[l] - 1 \in Nat
      BY <1>3 DEF Set!SavedOver
    <2> QED
      BY <1>3, <2>1 DEF Set!SavedOver, Set!LabelsTrue
  <1>4. CASE \E t \in Drafts : Set!Type(l, t)
    BY <1>4 DEF Set!Type, Set!LabelsTrue
  <1> QED
    BY <1>1, <1>2, <1>3, <1>4

RiskInv == OneWrite /\ Set!ModeShown
LEMMA RiskKept == RiskInv /\ UNCHANGED Set!riskVars => RiskInv'
  BY DEF RiskInv, OneWrite, Set!ModeShown, Set!riskVars

LEMMA RiskStep ==
    ASSUME RiskInv,
           \/ \E m \in Modes : Set!ChooseMode(m)
           \/ \E i \in DOMAIN writes : Set!StoreMode(i) \/ Set!ModeAnswered(i)
           \/ Set!AskMode
           \/ \E i \in DOMAIN reads : Set!TellMode(i) \/ Set!ModeLoaded(i)
    PROVE  RiskInv'
  <1> USE DEF RiskInv, OneWrite
  <1>1. ASSUME NEW m \in Modes, Set!ChooseMode(m) PROVE RiskInv'
    <2>1. writes = <<>>
      BY <1>1 DEF Set!ChooseMode, Set!CardsAnswer, Set!ModeShown
    <2>2. [mode |-> m, at |-> "sent"] \in Writes
      BY DEF Writes
    <2>3. /\ writes' = << [mode |-> m, at |-> "sent"] >> /\ writes' \in Seq(Writes)
          /\ saving' = TRUE /\ UNCHANGED <<excused, stored_, mode>>
      BY <1>1, <2>1, <2>2 DEF Set!ChooseMode
    <2> QED
      BY <2>3 DEF Set!ModeShown
  <1>2. ASSUME NEW i \in DOMAIN writes, Set!StoreMode(i) PROVE RiskInv'
    <2>0. DOMAIN writes = 1..Len(writes) /\ Len(writes) \in Nat
      OBVIOUS
    <2>1. writes[i] \in Writes /\ i = 1 /\ Len(writes) = 1
      BY <2>0
    <2>2. PICK ok \in BOOLEAN :
              /\ writes' = [writes EXCEPT ![i].at = IF ok THEN "kept" ELSE "refused"]
              /\ stored_' = IF ok THEN writes[i].mode ELSE stored_
      BY <1>2 DEF Set!StoreMode
    <2> DEFINE w == [writes[i] EXCEPT !.at = IF ok THEN "kept" ELSE "refused"]
    <2>3. w \in Writes /\ w.mode = writes[i].mode /\ w.at = IF ok THEN "kept" ELSE "refused"
      BY <2>1 DEF Writes
    <2>4. writes' = [writes EXCEPT ![i] = w]
      BY <2>2
    <2> HIDE DEF w
    <2>5. writes' \in Seq(Writes) /\ Len(writes') = 1 /\ writes'[1] = w
      BY <2>0, <2>1, <2>3, <2>4
    <2>a. writes # <<>> /\ writes' # <<>>
      BY <2>1, <2>5, SMTT(30)
    <2>6. UNCHANGED <<mode, saving, excused>>
      BY <1>2 DEF Set!StoreMode
    <2>7. w.at = "kept" => stored_' = w.mode
      BY <2>2, <2>3
    <2> QED
      BY <2>1, <2>5, <2>6, <2>7, <2>a DEF Set!ModeShown
  <1>3. ASSUME NEW i \in DOMAIN writes, Set!ModeAnswered(i) PROVE RiskInv'
    <2>0. DOMAIN writes = 1..Len(writes) /\ Len(writes) \in Nat
      OBVIOUS
    <2>1. writes[i] \in Writes /\ i = 1 /\ Len(writes) = 1
      BY <2>0
    <2>2. writes' = <<>>
      BY <1>3, <2>1 DEF Set!ModeAnswered, Set!RemoveAt
    <2>3. /\ mode' = writes[i].mode /\ saving' = FALSE /\ stored_' = stored_
          /\ excused' = (writes[i].at = "refused" /\ mode' # stored_)
          /\ writes[i].at \in {"kept", "refused"}
      BY <1>3, <2>1 DEF Set!ModeAnswered, Writes
    <2>4. excused' \in BOOLEAN /\ (~excused' => mode' = stored_)
      BY <2>1, <2>3
    <2>5. writes' \in Seq(Writes) /\ Len(writes') <= 1 /\ DOMAIN writes' = {}
      BY <2>2
    <2>6. ~saving' /\ saving' \in BOOLEAN
      BY <2>3, Zenon
    <2> QED
      BY <2>2, <2>3, <2>4, <2>5, <2>6 DEF Set!ModeShown
  <1>4. CASE Set!AskMode
    BY <1>4 DEF Set!AskMode, Set!ModeShown
  <1>5. ASSUME NEW i \in DOMAIN reads, Set!TellMode(i) PROVE RiskInv'
    BY <1>5 DEF Set!TellMode, Set!ModeShown
  <1>6. ASSUME NEW i \in DOMAIN reads, Set!ModeLoaded(i) PROVE RiskInv'
    <2>1. UNCHANGED <<saving, writes, stored_>>
      BY <1>6 DEF Set!ModeLoaded
    <2>2. \/ mode' = reads[i] /\ excused' = (mode' # stored_)
          \/ UNCHANGED <<mode, excused>>
      BY <1>6 DEF Set!ModeLoaded
    <2> QED
      BY <2>1, <2>2 DEF Set!ModeShown
  <1> QED
    BY <1>1, <1>2, <1>3, <1>4, <1>5, <1>6

WizardInv == done \in BOOLEAN /\ Set!StepsComplete
LEMMA WizardStep ==
    ASSUME WizardInv,
           UNCHANGED Set!wizardVars \/ Set!SubmitPage \/ Set!NextStep \/ Set!Back \/ Set!Another
    PROVE  WizardInv'
  <1> USE DEF WizardInv, Set!StepsComplete, Set!Steps, Set!CanSubmit, Set!TradeCountOk
  <1>1. CASE UNCHANGED Set!wizardVars
    BY <1>1 DEF Set!wizardVars
  <1>2. CASE Set!SubmitPage
    BY <1>2 DEF Set!SubmitPage, Set!Step1, Set!Step2, Set!Step3, Set!Entered
  <1>3. CASE Set!NextStep
    <2>1. CASE step = 3
      <3>1. done' = TRUE /\ step' = 3 /\ Set!CanSubmit /\ UNCHANGED <<filled, tradeCount>>
        BY <1>3, <2>1 DEF Set!NextStep
      <3>2. done' /\ done' \in BOOLEAN
        BY <3>1, Zenon
      <3> QED
        BY <3>1, <3>2
    <2>2. CASE step # 3
      <3>1. done' = FALSE /\ step' \in Set!Steps
        BY <1>3, <2>2 DEF Set!NextStep
      <3>2. ~done' /\ done' \in BOOLEAN
        BY <3>1, Zenon
      <3> QED
        BY <3>1, <3>2
    <2> QED
      BY <2>1, <2>2
  <1>4. CASE Set!Back
    BY <1>4 DEF Set!Back
  <1>5. CASE Set!Another
    <2>1. done' = FALSE /\ step' \in Set!Steps
      BY <1>5 DEF Set!Another
    <2>2. ~done' /\ done' \in BOOLEAN
      BY <2>1, Zenon
    <2> QED
      BY <2>1, <2>2
  <1> QED
    BY <1>1, <1>2, <1>3, <1>4, <1>5

LEMMA ConnectStep ==
    ASSUME Set!InputsFollow, UNCHANGED screen,
           \/ UNCHANGED Set!connectVars
           \/ Set!ConnectWallet \/ Set!OpenTab \/ Set!TypeKey
           \/ \E t \in Drafts : Set!TypeAmount(t) \/ Set!TypeChat(t)
           \/ Set!HandleConnect \/ Set!HandleDisconnect
    PROVE  Set!InputsFollow'
  <1> USE DEF Set!InputsFollow, Set!Press
  <1>1. CASE UNCHANGED Set!connectVars
    BY <1>1 DEF Set!connectVars
  <1>2. CASE Set!ConnectWallet \/ Set!OpenTab \/ Set!TypeKey
    BY <1>2 DEF Set!ConnectWallet, Set!OpenTab, Set!TypeKey
  <1>3. CASE \E t \in Drafts : Set!TypeAmount(t) \/ Set!TypeChat(t)
    BY <1>3 DEF Set!TypeAmount, Set!TypeChat
  <1>4. CASE Set!HandleConnect \/ Set!HandleDisconnect
    BY <1>4 DEF Set!HandleConnect, Set!HandleDisconnect
  <1> QED
    BY <1>1, <1>2, <1>3, <1>4

LEMMA SetStep ==  SetInv /\ [Set!Next]_(Set!vars) => SetInv'
  <1> SUFFICES ASSUME SetInv, [Set!Next]_(Set!vars) PROVE SetInv'
    OBVIOUS
  <1>0. LabelsInv /\ RiskInv /\ WizardInv /\ Set!InputsFollow
    BY DEF SetInv, Set!SettingsTrue, LabelsInv, RiskInv, WizardInv
  <1>a. LabelsInv /\ UNCHANGED Set!labelVars => LabelsInv'
    BY DEF LabelsInv, LabelsTyped, Set!labelVars, Set!LabelsTrue
  <1>b. ASSUME LabelsInv', RiskInv', WizardInv', Set!InputsFollow' PROVE SetInv'
    BY <1>b DEF SetInv, Set!SettingsTrue, LabelsInv, RiskInv, WizardInv
  <1>1. ASSUME NEW l \in Labels, Set!Save(l) \/ Set!SavedOver(l) \/ \E t \in Drafts : Set!Type(l, t)
        PROVE  SetInv'
    <2>1. UNCHANGED <<screen, Set!riskVars, Set!wizardVars, Set!connectVars>>
      BY <1>1 DEF Set!Save, Set!SavedOver, Set!Type, Set!Press, Set!Later
    <2> QED
      BY <1>0, <1>1, <1>b, <2>1, LabelsStep, RiskKept, WizardStep, ConnectStep
  <1>2. CASE Set!Delist
    <2>1. UNCHANGED <<screen, draft, saved, timers, kept, Set!riskVars, Set!wizardVars, Set!connectVars>>
      BY <1>2 DEF Set!Delist, Set!Press
    <2>2. LabelsInv'
      BY <1>0, <2>1 DEF LabelsInv, LabelsTyped, Set!LabelsTrue
    <2> QED
      BY <1>0, <1>b, <2>1, <2>2, RiskKept, WizardStep, ConnectStep
  <1>3. CASE \/ \E m \in Modes : Set!ChooseMode(m)
             \/ \E i \in DOMAIN writes : Set!StoreMode(i) \/ Set!ModeAnswered(i)
             \/ Set!AskMode
             \/ \E i \in DOMAIN reads : Set!TellMode(i) \/ Set!ModeLoaded(i)
    <2>1. UNCHANGED <<screen, Set!labelVars, Set!wizardVars, Set!connectVars>>
      BY <1>3 DEF Set!ChooseMode, Set!StoreMode, Set!ModeAnswered, Set!AskMode, Set!TellMode,
                  Set!ModeLoaded, Set!Press, Set!Later
    <2> QED
      BY <1>0, <1>3, <1>a, <1>b, <2>1, RiskStep, WizardStep, ConnectStep
  <1>4. CASE Set!SubmitPage \/ Set!NextStep \/ Set!Back \/ Set!Another
    <2>1. UNCHANGED <<screen, Set!labelVars, Set!riskVars, Set!connectVars>>
      BY <1>4 DEF Set!SubmitPage, Set!Step1, Set!Step2, Set!Step3, Set!Entered, Set!NextStep,
                  Set!Back, Set!Another, Set!Press
    <2> QED
      BY <1>0, <1>4, <1>a, <1>b, <2>1, RiskKept, WizardStep, ConnectStep
  <1>5. CASE \/ Set!ConnectWallet \/ Set!OpenTab \/ Set!TypeKey
             \/ \E t \in Drafts : Set!TypeAmount(t) \/ Set!TypeChat(t)
             \/ Set!HandleConnect \/ Set!HandleDisconnect
    <2>1. UNCHANGED <<screen, Set!labelVars, Set!riskVars, Set!wizardVars>>
      BY <1>5 DEF Set!ConnectWallet, Set!OpenTab, Set!TypeKey, Set!TypeAmount, Set!TypeChat,
                  Set!HandleConnect, Set!HandleDisconnect, Set!Press
    <2> QED
      BY <1>0, <1>5, <1>a, <1>b, <2>1, RiskKept, WizardStep, ConnectStep
  <1>6. CASE UNCHANGED Set!vars
    BY <1>0, <1>6, <1>a, <1>b, RiskKept, WizardStep, ConnectStep DEF Set!vars
  <1> QED
    BY <1>1, <1>2, <1>3, <1>4, <1>5, <1>6 DEF Set!Next

\* What is said to be set is set: a label says "Saved" for the text it saved,
\* the mode shown is the stored one once every request is answered unless one was
\* refused or an older answer came last, thanks are given for a complete submission, and inputs follow their connection
\* (TraderStrategyPage, RiskModeSelector, TraderSubmitStrategyPage, ConnectPage).
THEOREM SettingsStayTrue == Spec => []SettingsTrue
  <1> DEFINE Inv == part = "set" => SetInv
  <1>1. Init => Inv
    BY SetInit DEF Init
  <1>2. Inv /\ [Next]_vars => Inv'
    <2> SUFFICES ASSUME Inv, [Next]_vars, part' = "set" PROVE SetInv'
      OBVIOUS
    <2>1. part = "set" /\ [Set!Next]_(Set!vars)
      BY DEF Next, InSite, InForm, InCash, InList, InSet, vars, setVars, Set!vars, Set!labelVars,
             Set!riskVars, Set!wizardVars, Set!connectVars
    <2> QED
      BY <2>1, SetStep
  <1>3. Inv => SettingsTrue
    BY DEF SettingsTrue, SetInv
  <1> QED
    BY <1>1, <1>2, <1>3, PTL DEF Spec

-----------------------------------------------------------------------------
(* The pages that list things (Lists).                                     *)

LEMMA GreatestOf ==
    ASSUME NEW n \in Nat, NEW s \in SUBSET (1..n), s # {}
    PROVE  List!Max(s) \in s /\ \A k \in s : k <= List!Max(s)
  <1>1. PICK m \in s : \A k \in s : m >= k
    BY HasGreatest
  <1> QED
    BY <1>1 DEF List!Max

LEMMA GreatestOfFirst ==
    ASSUME NEW n \in Nat, NEW i \in 1..n
    PROVE  /\ List!Max(1..i) = i /\ (1..i) \ {i} = 1..(i - 1)
           /\ 1..i # {} /\ (1..i) \in SUBSET (1..n)
  <1>1. /\ i \in Nat /\ i \in 1..i /\ \A k \in 1..i : k <= i
        /\ (1..i) \in SUBSET (1..n)
    OBVIOUS
  <1>2. List!Max(1..i) \in 1..i /\ i <= List!Max(1..i)
    BY <1>1, GreatestOf
  <1>3. (1..i) \ {i} = 1..(i - 1)
    BY <1>1
  <1> QED
    BY <1>1, <1>2, <1>3

\* A filter takes the rows one after the other.
LEMMA FilteredFolds ==
    ASSUME NEW X, NEW s \in Seq(X), NEW T
    PROVE  \E f : /\ f[0] = <<>>
                  /\ \A i \in 1..Len(s) :
                        f[i] = IF s[i] \in T THEN Append(f[i - 1], s[i]) ELSE f[i - 1]
                  /\ List!Filtered(s, T) = f[Len(s)]
  <1> DEFINE n == Len(s)
             G == [p \in Seq(X) \X (1..n) |->
                     IF s[p[2]] \in T THEN Append(p[1], s[p[2]]) ELSE p[1]]
             Is(it) == it = [t \in SUBSET DOMAIN s |->
                               IF t = {} THEN <<>>
                               ELSE IF s[List!Max(t)] \in T
                                    THEN Append(it[t \ {List!Max(t)}], s[List!Max(t)])
                                    ELSE it[t \ {List!Max(t)}]]
             fold == CHOOSE it : Is(it)
  <1>0. n \in Nat /\ DOMAIN s = 1..n
    OBVIOUS
  <1>1. \E it : Is(it)
    <2>1. G \in [Seq(X) \X (1..n) -> Seq(X)] /\ <<>> \in Seq(X)
      OBVIOUS
    <2>2. PICK it : IsFold(it, n, Seq(X), <<>>, G)
      <3> HIDE DEF G, n
      <3> QED
        BY <1>0, <2>1, FoldExists
    <2>3. it = [t \in SUBSET (1..n) |-> it[t]]
      BY <2>2 DEF IsFold
    <2>4. ASSUME NEW t \in SUBSET (1..n), t # {}
          PROVE  it[t] = IF s[List!Max(t)] \in T
                         THEN Append(it[t \ {List!Max(t)}], s[List!Max(t)])
                         ELSE it[t \ {List!Max(t)}]
      <3>1. List!Max(t) \in t /\ \A k \in t : k <= List!Max(t)
        BY <2>4, <1>0, GreatestOf
      <3>2. /\ it[t] = G[<<it[t \ {List!Max(t)}], List!Max(t)>>]
            /\ it[t \ {List!Max(t)}] \in Seq(X)
        <4> HIDE DEF G
        <4> QED
          BY <2>2, <3>1 DEF IsFold
      <3> QED
        BY <3>1, <3>2
    <2>5. it[{}] = <<>>
      BY <2>2 DEF IsFold
    <2> HIDE DEF G
    <2>6. Is(it)
      BY <1>0, <2>3, <2>4, <2>5
    <2> QED
      BY <2>6
  <1>2. Is(fold)
    <2> HIDE DEF Is
    <2> QED
      BY <1>1
  <1>3. List!Filtered(s, T) = fold[DOMAIN s]
    BY DEF List!Filtered, List!FoldLeft, List!MapThenFoldSet
  <1> HIDE DEF fold
  <1> DEFINE f == [i \in 0..n |-> fold[1..i]]
  <1>4. f[0] = <<>>
    BY <1>2, <1>0
  <1>5. ASSUME NEW i \in 1..n
        PROVE  f[i] = IF s[i] \in T THEN Append(f[i - 1], s[i]) ELSE f[i - 1]
    <2> HIDE DEF n, Is
    <2>1. List!Max(1..i) = i /\ (1..i) \ {i} = 1..(i - 1) /\ 1..i # {}
          /\ (1..i) \in SUBSET DOMAIN s
      BY <1>0, GreatestOfFirst
    <2>2. fold[1..i] = IF s[List!Max(1..i)] \in T
                       THEN Append(fold[(1..i) \ {List!Max(1..i)}], s[List!Max(1..i)])
                       ELSE fold[(1..i) \ {List!Max(1..i)}]
      BY <1>2, <2>1 DEF Is
    <2>3. fold[1..i] = IF s[i] \in T THEN Append(fold[1..(i - 1)], s[i])
                       ELSE fold[1..(i - 1)]
      BY <2>1, <2>2
    <2> QED
      BY <2>3, <1>0
  <1> HIDE DEF f
  <1>6. List!Filtered(s, T) = f[n]
    BY <1>0, <1>3 DEF f
  <1> QED
    BY <1>4, <1>5, <1>6

LEMMA SumFolds ==
    ASSUME NEW s, s \in Seq(List!ToSet(s)), \A k \in DOMAIN s : s[k].pnl \in Int
    PROVE  \E f : /\ f[0] = 0
                  /\ \A i \in 1..Len(s) : f[i] = f[i - 1] + s[i].pnl
                  /\ List!Total(s) = f[Len(s)]
  <1> DEFINE n == Len(s)
             G == [p \in Int \X (1..n) |-> p[1] + s[p[2]].pnl]
             Is(it) == it = [t \in SUBSET DOMAIN s |->
                               IF t = {} THEN 0
                               ELSE it[t \ {List!Max(t)}] + s[List!Max(t)].pnl]
             fold == CHOOSE it : Is(it)
  <1>0. n \in Nat /\ DOMAIN s = 1..n
    OBVIOUS
  <1>1. \E it : Is(it)
    <2>1. G \in [Int \X (1..n) -> Int] /\ 0 \in Int
      BY <1>0
    <2>2. PICK it : IsFold(it, n, Int, 0, G)
      <3> HIDE DEF G, n
      <3> QED
        BY <1>0, <2>1, FoldExists, Zenon
    <2>3. it = [t \in SUBSET (1..n) |-> it[t]]
      BY <2>2 DEF IsFold
    <2>4. ASSUME NEW t \in SUBSET (1..n), t # {}
          PROVE  it[t] = it[t \ {List!Max(t)}] + s[List!Max(t)].pnl
      <3>1. List!Max(t) \in t /\ \A k \in t : k <= List!Max(t)
        BY <2>4, <1>0, GreatestOf
      <3>2. /\ it[t] = G[<<it[t \ {List!Max(t)}], List!Max(t)>>]
            /\ it[t \ {List!Max(t)}] \in Int
        <4> HIDE DEF G
        <4> QED
          BY <2>2, <3>1 DEF IsFold
      <3> QED
        BY <3>1, <3>2
    <2>5. it[{}] = 0
      BY <2>2 DEF IsFold
    <2> HIDE DEF G
    <2>6. Is(it)
      BY <1>0, <2>3, <2>4, <2>5
    <2> QED
      BY <2>6
  <1>2. Is(fold)
    <2> HIDE DEF Is
    <2> QED
      BY <1>1
  <1>3. List!Total(s) = fold[DOMAIN s]
    BY DEF List!Total, List!FoldLeft, List!MapThenFoldSet
  <1> HIDE DEF fold
  <1> DEFINE f == [i \in 0..n |-> fold[1..i]]
  <1>4. f[0] = 0
    BY <1>2, <1>0
  <1>5. ASSUME NEW i \in 1..n PROVE f[i] = f[i - 1] + s[i].pnl
    <2> HIDE DEF n, Is
    <2>1. List!Max(1..i) = i /\ (1..i) \ {i} = 1..(i - 1) /\ 1..i # {}
          /\ (1..i) \in SUBSET DOMAIN s
      BY <1>0, GreatestOfFirst
    <2>2. fold[1..i] = fold[(1..i) \ {List!Max(1..i)}] + s[List!Max(1..i)].pnl
      BY <1>2, <2>1 DEF Is
    <2>3. fold[1..i] = fold[1..(i - 1)] + s[i].pnl
      BY <2>1, <2>2
    <2> QED
      BY <2>3, <1>0
  <1> HIDE DEF f
  <1>6. List!Total(s) = f[n]
    BY <1>0, <1>3 DEF f
  <1> QED
    BY <1>4, <1>5, <1>6

\* t holds the first i rows of s that are in T, each once.
Held(t, s, i, T) ==
    /\ \A k \in 1..Len(t) : \E j \in 1..i : t[k] = s[j] /\ s[j] \in T
    /\ \A j \in 1..i : s[j] \in T => \E k \in 1..Len(t) : t[k] = s[j]
    /\ \A j, k \in 1..Len(t) : t[j].id = t[k].id => j = k

Apart(s) == \A j, k \in DOMAIN s : s[j].id = s[k].id => j = k

LEMMA HeldGrows ==
    ASSUME NEW X, NEW s \in Seq(X), Apart(s), NEW T, NEW i \in 1..Len(s),
           NEW t \in Seq(X), Held(t, s, i - 1, T)
    PROVE  /\ s[i] \in T => Held(Append(t, s[i]), s, i, T)
           /\ s[i] \notin T => Held(t, s, i, T)
  <1>0. /\ Len(s) \in Nat /\ DOMAIN s = 1..Len(s) /\ s[i] \in X /\ Len(t) \in Nat
        /\ i \in Nat /\ i - 1 \in Nat
    OBVIOUS
  <1>1. /\ \A k \in 1..Len(t) : \E j \in 1..(i - 1) : t[k] = s[j] /\ s[j] \in T
        /\ \A j \in 1..(i - 1) : s[j] \in T => \E k \in 1..Len(t) : t[k] = s[j]
        /\ \A j, k \in 1..Len(t) : t[j].id = t[k].id => j = k
    BY DEF Held
  <1>2. \A j \in 1..i : j = i \/ j \in 1..(i - 1)
    BY <1>0
  <1>3. \A j \in 1..(i - 1) : j \in 1..i /\ j \in 1..Len(s) /\ j # i
    BY <1>0
  <1>4. ASSUME s[i] \in T PROVE Held(Append(t, s[i]), s, i, T)
    <2> DEFINE u == Append(t, s[i])
               m == Len(t) + 1
    <2>1. Len(u) = m /\ u[m] = s[i] /\ \A k \in 1..Len(t) : u[k] = t[k] /\ k \in 1..m
      BY <1>0
    <2>2. m \in 1..m /\ \A k \in 1..m : k = m \/ k \in 1..Len(t)
      BY <1>0
    <2> HIDE DEF u, m
    <2>3. ASSUME NEW k \in 1..m PROVE \E j \in 1..i : u[k] = s[j] /\ s[j] \in T
      BY <1>0, <1>1, <1>3, <1>4, <2>1, <2>2
    <2>4. ASSUME NEW j \in 1..i, s[j] \in T PROVE \E k \in 1..m : u[k] = s[j]
      BY <1>1, <1>2, <2>1, <2>2, <2>4
    <2>5. ASSUME NEW k \in 1..Len(t) PROVE t[k].id # s[i].id
      <3>1. PICK j \in 1..(i - 1) : t[k] = s[j]
        BY <1>1
      <3> QED
        BY <1>0, <1>3, <3>1 DEF Apart
    <2>6. ASSUME NEW j \in 1..m, NEW k \in 1..m, u[j].id = u[k].id PROVE j = k
      BY <1>1, <2>1, <2>2, <2>5, <2>6
    <2>7. Held(u, s, i, T)
      BY <2>1, <2>3, <2>4, <2>6 DEF Held
    <2> QED
      BY <2>7 DEF u
  <1>5. ASSUME s[i] \notin T PROVE Held(t, s, i, T)
    BY <1>1, <1>2, <1>3, <1>5 DEF Held
  <1> QED
    BY <1>4, <1>5

\* A filter keeps the rows that pass, each once, and no others.
LEMMA FilteredHolds ==
    ASSUME NEW X, NEW s \in Seq(X), Apart(s), NEW T
    PROVE  List!Filtered(s, T) \in Seq(X) /\ Held(List!Filtered(s, T), s, Len(s), T)
  <1>0. Len(s) \in Nat
    OBVIOUS
  <1>1. PICK f : /\ f[0] = <<>>
                 /\ \A i \in 1..Len(s) :
                       f[i] = IF s[i] \in T THEN Append(f[i - 1], s[i]) ELSE f[i - 1]
                 /\ List!Filtered(s, T) = f[Len(s)]
    BY FilteredFolds
  <1> DEFINE S == {i \in Nat : i <= Len(s) => f[i] \in Seq(X) /\ Held(f[i], s, i, T)}
  <1>2. 0 \in S
    <2>1. 1..0 = {} /\ Len(<<>>) = 0 /\ <<>> \in Seq(X)
      OBVIOUS
    <2>2. Held(<<>>, s, 0, T)
      BY <2>1 DEF Held
    <2> QED
      BY <1>1, <2>1, <2>2
  <1>3. ASSUME NEW i \in Nat, i \in S PROVE i + 1 \in S
    <2> SUFFICES ASSUME i + 1 <= Len(s)
                 PROVE  f[i + 1] \in Seq(X) /\ Held(f[i + 1], s, i + 1, T)
      OBVIOUS
    <2>1. i + 1 \in 1..Len(s) /\ (i + 1) - 1 = i /\ s[i + 1] \in X
      BY <1>0
    <2>2. f[i] \in Seq(X) /\ Held(f[i], s, i, T)
      BY <1>0, <1>3
    <2>3. f[i + 1] = IF s[i + 1] \in T THEN Append(f[i], s[i + 1]) ELSE f[i]
      BY <1>1, <2>1
    <2>4. /\ s[i + 1] \in T => Held(Append(f[i], s[i + 1]), s, i + 1, T)
          /\ s[i + 1] \notin T => Held(f[i], s, i + 1, T)
      BY <2>1, <2>2, HeldGrows
    <2> QED
      BY <2>1, <2>2, <2>3, <2>4
  <1>4. Len(s) \in S
    <2> HIDE DEF S
    <2> QED
      BY <1>0, <1>2, <1>3, SetInduction
  <1> QED
    BY <1>0, <1>1, <1>4

\* What two filters that part the rows have of the first i of them.
Parted(X, t, u, i) == t \in Seq(X) /\ u \in Seq(X) /\ Len(t) + Len(u) = i

LEMMA PartedStart == ASSUME NEW X PROVE Parted(X, <<>>, <<>>, 0)
  BY DEF Parted

LEMMA PartedGrows ==
    ASSUME NEW X, NEW t, NEW u, NEW i \in Nat, Parted(X, t, u, i), NEW x \in X
    PROVE  Parted(X, Append(t, x), u, i + 1) /\ Parted(X, t, Append(u, x), i + 1)
  <1>1. t \in Seq(X) /\ u \in Seq(X) /\ Len(t) + Len(u) = i
    BY DEF Parted
  <1>2. Len(t) \in Nat /\ Len(u) \in Nat
    BY <1>1
  <1>3. Append(t, x) \in Seq(X) /\ Len(Append(t, x)) = Len(t) + 1
    BY <1>1
  <1>4. Append(u, x) \in Seq(X) /\ Len(Append(u, x)) = Len(u) + 1
    BY <1>1
  <1> QED
    BY <1>1, <1>2, <1>3, <1>4 DEF Parted

\* Two filters that part the rows keep all of them between them.
LEMMA HalvesAdd ==
    ASSUME NEW X, NEW s \in Seq(X), NEW T, NEW U,
           \A k \in 1..Len(s) : s[k] \in U <=> s[k] \notin T
    PROVE  Len(List!Filtered(s, T)) + Len(List!Filtered(s, U)) = Len(s)
  <1>0. Len(s) \in Nat
    OBVIOUS
  <1>1. PICK f : /\ f[0] = <<>>
                 /\ \A i \in 1..Len(s) :
                       f[i] = IF s[i] \in T THEN Append(f[i - 1], s[i]) ELSE f[i - 1]
                 /\ List!Filtered(s, T) = f[Len(s)]
    BY FilteredFolds
  <1>2. PICK g : /\ g[0] = <<>>
                 /\ \A i \in 1..Len(s) :
                       g[i] = IF s[i] \in U THEN Append(g[i - 1], s[i]) ELSE g[i - 1]
                 /\ List!Filtered(s, U) = g[Len(s)]
    BY FilteredFolds
  <1> DEFINE S == {i \in Nat : i <= Len(s) => Parted(X, f[i], g[i], i)}
  <1>3. 0 \in S
    BY <1>1, <1>2, PartedStart
  <1>4. ASSUME NEW i \in Nat, i \in S PROVE i + 1 \in S
    <2> SUFFICES ASSUME i + 1 <= Len(s) PROVE Parted(X, f[i + 1], g[i + 1], i + 1)
      OBVIOUS
    <2>1. i + 1 \in 1..Len(s) /\ (i + 1) - 1 = i /\ s[i + 1] \in X
      BY <1>0
    <2>2. Parted(X, f[i], g[i], i)
      BY <1>0, <1>4
    <2>3. /\ f[i + 1] = IF s[i + 1] \in T THEN Append(f[i], s[i + 1]) ELSE f[i]
          /\ g[i + 1] = IF s[i + 1] \in U THEN Append(g[i], s[i + 1]) ELSE g[i]
      BY <1>1, <1>2, <2>1
    <2>4. CASE s[i + 1] \in T
      <3>1. f[i + 1] = Append(f[i], s[i + 1]) /\ g[i + 1] = g[i]
        BY <2>1, <2>3, <2>4
      <3> QED
        BY <2>1, <2>2, <3>1, PartedGrows
    <2>5. CASE s[i + 1] \notin T
      <3>1. g[i + 1] = Append(g[i], s[i + 1]) /\ f[i + 1] = f[i]
        BY <2>1, <2>3, <2>5
      <3> QED
        BY <2>1, <2>2, <3>1, PartedGrows
    <2> QED
      BY <2>4, <2>5
  <1>5. Len(s) \in S
    <2> HIDE DEF S
    <2> QED
      BY <1>0, <1>3, <1>4, SetInduction
  <1>6. Parted(X, f[Len(s)], g[Len(s)], Len(s))
    BY <1>0, <1>5
  <1> QED
    BY <1>1, <1>2, <1>6 DEF Parted

\* What only winners made is no loss, what only losers made is one.
LEMMA TotalSign ==
    ASSUME NEW s, s \in Seq(List!ToSet(s)), \A k \in DOMAIN s : s[k].pnl \in Int
    PROVE  /\ (\A k \in DOMAIN s : s[k].pnl >= 0) => List!Total(s) >= 0
           /\ (\A k \in DOMAIN s : s[k].pnl < 0) => Len(s) = 0 \/ List!Total(s) < 0
  <1>0. Len(s) \in Nat /\ DOMAIN s = 1..Len(s)
    OBVIOUS
  <1>1. PICK f : /\ f[0] = 0
                 /\ \A i \in 1..Len(s) : f[i] = f[i - 1] + s[i].pnl
                 /\ List!Total(s) = f[Len(s)]
    BY SumFolds
  <1> DEFINE S == {i \in Nat : i <= Len(s) =>
                      /\ f[i] \in Int
                      /\ (\A k \in DOMAIN s : s[k].pnl >= 0) => f[i] >= 0
                      /\ (\A k \in DOMAIN s : s[k].pnl < 0) => i = 0 \/ f[i] < 0}
  <1>2. 0 \in S
    BY <1>1
  <1>3. ASSUME NEW i \in Nat, i \in S PROVE i + 1 \in S
    <2> SUFFICES ASSUME i + 1 <= Len(s)
                 PROVE  /\ f[i + 1] \in Int
                        /\ (\A k \in DOMAIN s : s[k].pnl >= 0) => f[i + 1] >= 0
                        /\ (\A k \in DOMAIN s : s[k].pnl < 0) => f[i + 1] < 0
      OBVIOUS
    <2>1. i + 1 \in DOMAIN s /\ s[i + 1].pnl \in Int /\ (i + 1) - 1 = i
      BY <1>0
    <2>2. /\ f[i] \in Int
          /\ (\A k \in DOMAIN s : s[k].pnl >= 0) => f[i] >= 0
          /\ (\A k \in DOMAIN s : s[k].pnl < 0) => i = 0 \/ f[i] < 0
      BY <1>0, <1>3
    <2>3. f[i + 1] = f[i] + s[i + 1].pnl
      BY <1>0, <1>1, <2>1
    <2> QED
      BY <1>1, <2>1, <2>2, <2>3
  <1>4. Len(s) \in S
    <2> HIDE DEF S
    <2> QED
      BY <1>0, <1>2, <1>3, SetInduction
  <1> QED
    BY <1>0, <1>1, <1>4

LEMMA SameListCount == ASSUME NEW S PROVE List!Cardinality(S) = Cardinality(S)
  BY DEF List!Cardinality, Cardinality, List!IsFiniteSet, IsFiniteSet

Sortable(s) == \A k \in DOMAIN s : s[k].pnl \in Int /\ s[k].aum \in Int

\* A sort, whichever way, keeps every row, each once, and adds none.
LEMMA SortedHolds ==
    ASSUME NEW X, NEW s \in Seq(X), Apart(s), Sortable(s), sort.key \in {"aum", "pnl"}
    PROVE  List!Sorted(s) \in Seq(X) /\ Held(List!Sorted(s), s, Len(s), X)
  <1> DEFINE n == Len(s)
             R == {p \in (1..n) \X (1..n) : List!Before(s, p[1], p[2])}
             row(k) == CHOOSE i \in DOMAIN s : List!Place(s, i) = k
             t == List!Sorted(s)
  <1>0. n \in Nat /\ DOMAIN s = 1..n
    OBVIOUS
  <1>1. \A i \in 1..n : s[i][sort.key] \in Int
    BY <1>0 DEF Sortable
  <1>2. \A i, j \in 1..n : <<i, j>> \in R <=>
           IF s[i][sort.key] = s[j][sort.key] THEN i < j
           ELSE IF sort.dir = "asc" THEN s[i][sort.key] < s[j][sort.key]
                                    ELSE s[i][sort.key] > s[j][sort.key]
    BY DEF List!Before
  <1>3. /\ \A k \in 1..n : \E i \in 1..n :
              /\ Cardinality(Below(R, n, i)) + 1 = k
              /\ \A l \in 1..n : Cardinality(Below(R, n, l)) + 1 = k => l = i
        /\ \A i \in 1..n : Cardinality(Below(R, n, i)) + 1 \in 1..n
    <2> HIDE DEF R, n
    <2>1. \A i \in 1..n : <<i, i>> \notin R
      BY <1>0, <1>2
    <2>2. \A i, j \in 1..n : i # j => <<i, j>> \in R \/ <<j, i>> \in R
      BY <1>0, <1>1, <1>2
    <2>3. \A i, j, l \in 1..n : <<i, j>> \in R /\ <<j, l>> \in R => <<i, l>> \in R
      BY <1>0, <1>1, <1>2
    <2> QED
      BY <1>0, <2>1, <2>2, <2>3, RankOf
  <1>4. ASSUME NEW i \in 1..n PROVE List!Place(s, i) = Cardinality(Below(R, n, i)) + 1
    <2>1. {j \in DOMAIN s : List!Before(s, j, i)} = Below(R, n, i)
      BY <1>0 DEF Below
    <2> QED
      BY <2>1, SameListCount DEF List!Place
  <1>5. \A k \in 1..n : \E i \in 1..n :
           /\ List!Place(s, i) = k
           /\ \A l \in 1..n : List!Place(s, l) = k => l = i
    <2> HIDE DEF R, n
    <2> QED
      BY <1>3, <1>4
  <1>6. \A i \in 1..n : List!Place(s, i) \in 1..n
    <2> HIDE DEF R, n
    <2> QED
      BY <1>3, <1>4
  <1>7. \A k \in 1..n : row(k) \in 1..n /\ List!Place(s, row(k)) = k
    BY <1>0, <1>5
  <1>8. \A i \in 1..n : row(List!Place(s, i)) = i
    BY <1>5, <1>6, <1>7
  <1>9. t = [k \in 1..n |-> s[row(k)]]
    BY <1>0 DEF List!Sorted
  <1> HIDE DEF row, t
  <1>10. t \in Seq(X) /\ Len(t) = n /\ \A k \in 1..n : t[k] = s[row(k)]
    BY <1>0, <1>7, <1>9
  <1>11. ASSUME NEW j \in 1..n, NEW k \in 1..n, t[j].id = t[k].id PROVE j = k
    <2>1. s[row(j)].id = s[row(k)].id
      BY <1>10, <1>11
    <2>2. row(j) = row(k)
      BY <1>0, <1>7, <2>1 DEF Apart
    <2> QED
      BY <1>7, <2>2
  <1>12. \A k \in 1..n : s[k] \in X
    OBVIOUS
  <1> QED
    BY <1>6, <1>7, <1>8, <1>10, <1>11, <1>12 DEF Held, t

LEMMA Smaller ==
    ASSUME NEW a \in Nat, NEW b \in Nat
    PROVE  /\ List!Min({a, b}) \in Nat /\ List!Min({a, b}) <= b
           /\ ~(b > a) => List!Min({a, b}) = b
  <1>1. \E x \in {a, b} : \A y \in {a, b} : x <= y
    OBVIOUS
  <1>2. List!Min({a, b}) \in {a, b} /\ \A y \in {a, b} : List!Min({a, b}) <= y
    BY <1>1 DEF List!Min
  <1> QED
    BY <1>2

LEMMA FirstOf ==
    ASSUME NEW X, NEW s \in Seq(X), NEW m \in Nat, m <= Len(s)
    PROVE  /\ SubSeq(s, 1, m) \in Seq(X) /\ Len(SubSeq(s, 1, m)) = m
           /\ \A k \in 1..m : SubSeq(s, 1, m)[k] = s[k] /\ k \in 1..Len(s)
  OBVIOUS

ListTyped ==
    /\ page \in List!Pages
    /\ List!IsList(rows)
    /\ sort.key \in {"aum", "pnl"}
    /\ DOMAIN chosen = DOMAIN Filters[page]
    /\ shown \in Nat

\* No filter, no text and no limit holds rows back.
AllShown ==
    /\ \A dim \in DOMAIN chosen : chosen[dim] = All
    /\ page = "users" => search = None
    /\ page = "history" => ~List!HasMore

LEMMA PassingHolds ==
    ASSUME ListTyped, NEW T
    PROVE  /\ List!Filtered(rows, T) \in Seq(List!ToSet(rows))
           /\ Held(List!Filtered(rows, T), rows, Len(rows), T)
  BY FilteredHolds DEF ListTyped, List!IsList, Apart

\* Whatever page it is, what it lists are rows of it, each once, and all of them
\* when nothing holds rows back.
LEMMA ListedHolds ==
    ASSUME ListTyped
    PROVE  /\ List!Listed \in Seq(List!ToSet(rows))
           /\ \E T : /\ Held(List!Listed, rows, Len(rows), T)
                     /\ AllShown => \A j \in 1..Len(rows) : rows[j] \in T
                     /\ page = "trades" => \A r \in T : List!TradePasses(r)
  <1> DEFINE R == List!ToSet(rows)
  <1>0. /\ rows \in Seq(R) /\ Apart(rows) /\ Sortable(rows) /\ Len(rows) \in Nat
        /\ DOMAIN rows = 1..Len(rows) /\ \A j \in 1..Len(rows) : rows[j] \in R
    BY DEF ListTyped, List!IsList, Apart, Sortable
  <1>1. CASE page = "trades"
    <2> DEFINE T == {r \in R : List!TradePasses(r)}
    <2>1. List!Listed = List!Filtered(rows, T)
      BY <1>1 DEF List!Listed, List!TradeRows, List!Passing
    <2>2. AllShown => \A r \in R : List!TradePasses(r)
      BY <1>1, ConstantsAssumption DEF AllShown, List!TradePasses, List!Chosen, ListTyped,
         List!ListsAssumption
    <2>3. AllShown => \A j \in 1..Len(rows) : rows[j] \in T
      BY <1>0, <2>2
    <2>4. /\ List!Listed \in Seq(R) /\ Held(List!Listed, rows, Len(rows), T)
          /\ \A r \in T : List!TradePasses(r)
      BY <2>1, PassingHolds
    <2> HIDE DEF T, R
    <2> QED
      BY <2>3, <2>4 DEF R
  <1>2. CASE page = "users"
    <2> DEFINE T == {r \in R : List!UserPasses(r)}
    <2>1. List!Listed = List!Filtered(rows, T)
      BY <1>2 DEF List!Listed, List!UserRows, List!Passing
    <2>2. AllShown => \A r \in R : List!UserPasses(r)
      BY <1>2, ConstantsAssumption DEF AllShown, List!UserPasses, List!Chosen, ListTyped,
         List!ListsAssumption
    <2>3. AllShown => \A j \in 1..Len(rows) : rows[j] \in T
      BY <1>0, <2>2
    <2> QED
      BY <1>2, <2>1, <2>3, PassingHolds
  <1>3. CASE page = "log"
    <2> DEFINE T == {r \in R : List!LogPasses(r)}
    <2>1. List!Listed = List!Filtered(rows, T)
      BY <1>3 DEF List!Listed, List!LogRows, List!Passing
    <2>2. AllShown => \A r \in R : List!LogPasses(r)
      BY <1>3, ConstantsAssumption DEF AllShown, List!LogPasses, List!Chosen, ListTyped,
         List!ListsAssumption
    <2>3. AllShown => \A j \in 1..Len(rows) : rows[j] \in T
      BY <1>0, <2>2
    <2> QED
      BY <1>3, <2>1, <2>3, PassingHolds
  <1>4. CASE page = "market"
    <2> DEFINE T == {r \in R : List!MarketPasses(r)}
    <2>1. List!Listed = List!Filtered(rows, T)
      BY <1>4 DEF List!Listed, List!MarketCards, List!Passing
    <2>2. AllShown => \A r \in R : List!MarketPasses(r)
      BY <1>4, ConstantsAssumption DEF AllShown, List!MarketPasses, List!Chosen, ListTyped,
         List!ListsAssumption
    <2>3. AllShown => \A j \in 1..Len(rows) : rows[j] \in T
      BY <1>0, <2>2
    <2> QED
      BY <1>4, <2>1, <2>3, PassingHolds
  <1>5. CASE page = "subscribers"
    <2>1. List!Listed = List!Sorted(rows)
      BY <1>5 DEF List!Listed, List!SubscriberRows
    <2>2. List!Sorted(rows) \in Seq(R) /\ Held(List!Sorted(rows), rows, Len(rows), R)
      BY <1>0, SortedHolds DEF ListTyped
    <2> QED
      BY <1>0, <1>5, <2>1, <2>2
  <1>6. CASE page \in {"open", "active", "queue"}
    <2>1. List!Listed = rows
      BY <1>6 DEF List!Listed, List!OpenRows, List!ActiveCards, List!QueueCards
    <2>2. Held(rows, rows, Len(rows), R)
      BY <1>0 DEF Held, Apart
    <2> QED
      BY <1>0, <1>6, <2>1, <2>2
  <1>7. CASE page = "history"
    <2> DEFINE m == List!Min({shown, Len(rows)})
               t == SubSeq(rows, 1, m)
               T == {rows[j] : j \in 1..m}
    <2>1. List!Listed = t
      BY <1>7 DEF List!Listed, List!FirstRows
    <2>2. m \in Nat /\ m <= Len(rows) /\ (~List!HasMore => m = Len(rows))
      <3> HIDE DEF m
      <3> QED
        BY <1>0, Smaller DEF ListTyped, List!HasMore, m
    <2> HIDE DEF m, R
    <2>3. t \in Seq(R) /\ Len(t) = m /\ \A k \in 1..m : t[k] = rows[k] /\ k \in 1..Len(rows)
      BY <1>0, <2>2, FirstOf
    <2> HIDE DEF t
    <2>4. Held(t, rows, Len(rows), T)
      BY <1>0, <2>3 DEF Held, Apart
    <2>5. AllShown => \A j \in 1..Len(rows) : rows[j] \in T
      BY <1>7, <2>2 DEF AllShown
    <2> QED
      <3> HIDE DEF T
      <3>1. page # "trades"
        BY <1>7
      <3> QED
        BY <2>1, <2>3, <2>4, <2>5, <3>1 DEF R
  <1> QED
    BY <1>1, <1>2, <1>3, <1>4, <1>5, <1>6, <1>7 DEF ListTyped, List!Pages

LEMMA NothingLeft == ListTyped => List!NothingLeftOut
  <1> SUFFICES ASSUME ListTyped PROVE List!NothingLeftOut
    OBVIOUS
  <1> DEFINE t == List!Listed
  <1>1. PICK T : /\ Held(t, rows, Len(rows), T)
                 /\ AllShown => \A j \in 1..Len(rows) : rows[j] \in T
    BY ListedHolds
  <1>2. t \in Seq(List!ToSet(rows)) /\ rows \in Seq(List!ToSet(rows))
    BY ListedHolds DEF ListTyped, List!IsList
  <1>3. DOMAIN t = 1..Len(t) /\ DOMAIN rows = 1..Len(rows)
    BY <1>2
  <1> HIDE DEF t
  <1>4. \A j, k \in DOMAIN t : t[j].id = t[k].id => j = k
    BY <1>1, <1>3 DEF Held
  <1>5. ASSUME AllShown PROVE {t[k].id : k \in DOMAIN t} = {rows[k].id : k \in DOMAIN rows}
    <2>1. \A k \in DOMAIN t : \E j \in DOMAIN rows : t[k] = rows[j]
      BY <1>1, <1>3 DEF Held
    <2>2. \A j \in DOMAIN rows : \E k \in DOMAIN t : t[k] = rows[j]
      BY <1>1, <1>3, <1>5 DEF Held
    <2> QED
      BY <2>1, <2>2
  <1> QED
    BY <1>4, <1>5 DEF List!NothingLeftOut, AllShown, List!Ids, t

LEMMA SummaryTrue == ListTyped => List!SummaryAdds
  <1> SUFFICES ASSUME ListTyped, page = "trades" PROVE List!SummaryAdds
    BY DEF List!SummaryAdds
  <1> DEFINE t == List!Listed
  <1>1. PICK T : Held(t, rows, Len(rows), T) /\ \A r \in T : List!TradePasses(r)
    BY ListedHolds
  <1>2. t \in Seq(List!ToSet(rows)) /\ rows \in Seq(List!ToSet(rows))
    BY ListedHolds DEF ListTyped, List!IsList
  <1>3. DOMAIN t = 1..Len(t) /\ DOMAIN rows = 1..Len(rows) /\ Len(t) \in Nat
    BY <1>2
  <1> HIDE DEF t
  <1>4. t \in Seq(List!ToSet(t))
    BY <1>2, <1>3 DEF List!ToSet
  <1>5. ASSUME NEW k \in DOMAIN t PROVE t[k].pnl \in Int /\ List!TradePasses(t[k])
    <2>1. PICK j \in DOMAIN rows : t[k] = rows[j] /\ rows[j] \in T
      BY <1>1, <1>3, <1>5 DEF Held
    <2> QED
      BY <1>1, <2>1 DEF ListTyped, List!IsList
  <1>6. \A k \in 1..Len(t) : t[k] \in List!Lost <=> t[k] \notin List!Won
    BY <1>3, <1>5 DEF List!Lost, List!Won, List!ToSet, t
  <1>7. Len(List!Filtered(t, List!Won)) + Len(List!Filtered(t, List!Lost)) = Len(t)
    BY <1>4, <1>6, HalvesAdd
  <1>8. /\ (\A k \in DOMAIN t : t[k].pnl >= 0) => List!Total(t) >= 0
        /\ (\A k \in DOMAIN t : t[k].pnl < 0) => Len(t) = 0 \/ List!Total(t) < 0
    BY <1>4, <1>5, TotalSign
  <1>9. /\ chosen.result = "wins" => List!Total(t) >= 0
        /\ chosen.result = "losses" => Len(t) = 0 \/ List!Total(t) < 0
    BY <1>5, <1>8 DEF List!TradePasses
  <1>10. Len(List!Filtered(t, List!Won)) \in Nat /\ Len(List!Filtered(t, List!Lost)) \in Nat
    BY <1>1, <1>3, <1>4, FilteredHolds DEF Held, Apart
  <1>11. Len(t) = 0 => Len(List!Filtered(t, List!Lost)) = 0
    BY <1>7, <1>10
  <1> QED
    BY <1>7, <1>9, <1>11 DEF List!SummaryAdds, List!Summary, t

ListInv ==
    /\ ListTyped
    /\ expanded = opened
    /\ cards = given
    /\ refreshes \in Nat /\ List!SpinningStops

LEMMA ListInvImplies == ListInv => List!RowsKeepTheirOwn
  <1> SUFFICES ASSUME ListInv PROVE List!RowsKeepTheirOwn
    OBVIOUS
  <1>1. List!HoldsItsOwn
    BY DEF ListInv, List!HoldsItsOwn, List!Key
  <1> QED
    BY <1>1, NothingLeft, SummaryTrue DEF ListInv, List!RowsKeepTheirOwn

LEMMA ListInit == List!Init => ListInv
  <1> SUFFICES ASSUME List!Init PROVE ListInv
    OBVIOUS
  <1>1. ListTyped
    BY ConstantsAssumption DEF List!Init, ListTyped, List!ListsAssumption
  <1>2. cards = given
    BY DEF List!Init, List!Keys, List!Ids, List!Key, List!RowOf
  <1> QED
    BY <1>1, <1>2 DEF List!Init, ListInv, List!SpinningStops

LEMMA RenderKeeps == cards = given /\ List!Render => cards' = given'
  BY DEF List!Render, List!Keys, List!Ids, List!Key, List!RowOf

LEMMA GiveKeeps ==
    ASSUME ListInv, NEW k, NEW held, List!Give(k, held)
    PROVE  ListInv'
  BY DEF List!Give, ListInv, List!Key, List!SpinningStops, ListTyped

\* What shows other rows, or other of them, and renders.
LEMMA RenderedKeeps ==
    ASSUME ListInv, ListTyped', List!Render, UNCHANGED <<expanded, opened, spinning, refreshes>>
    PROVE  ListInv'
  BY RenderKeeps DEF ListInv, List!SpinningStops

LEMMA ListStep == ListInv /\ [List!Next]_(List!vars) => ListInv'
  <1> SUFFICES ASSUME ListInv, [List!Next]_(List!vars) PROVE ListInv'
    OBVIOUS
  <1>0. ListTyped
    BY DEF ListInv
  <1>1. ASSUME NEW k, List!PickRole(k) PROVE ListInv'
    BY <1>1, GiveKeeps DEF List!PickRole
  <1>2. ASSUME NEW k, List!PendingCard(k) PROVE ListInv'
    BY <1>2, GiveKeeps DEF List!PendingCard
  <1>3. ASSUME NEW k, List!Expand(k) PROVE ListInv'
    BY <1>3 DEF List!Expand, List!Key, ListInv, ListTyped, List!SpinningStops
  <1>4. ASSUME NEW k \in DOMAIN List!Listed, List!Close(k) PROVE ListInv'
    <2> DEFINE T == {r \in List!ToSet(rows) : r.id # List!Listed[k].id}
    <2>1. rows' = List!Filtered(rows, T)
      BY <1>4 DEF List!Close
    <2> HIDE DEF T
    <2>2. rows' \in Seq(List!ToSet(rows)) /\ Held(rows', rows, Len(rows), T)
      BY <1>0, <2>1, PassingHolds
    <2>3. List!IsList(rows')
      <3>1. DOMAIN rows' = 1..Len(rows') /\ DOMAIN rows = 1..Len(rows)
        BY <1>0, <2>2 DEF ListTyped, List!IsList
      <3>2. rows' \in Seq(List!ToSet(rows'))
        BY <2>2, <3>1 DEF List!ToSet
      <3>3. \A i \in DOMAIN rows' : \E j \in DOMAIN rows : rows'[i] = rows[j]
        BY <2>2, <3>1 DEF Held
      <3>4. \A i \in DOMAIN rows' : {rows'[i].pnl, rows'[i].aum} \subseteq Int
        BY <1>0, <3>3 DEF ListTyped, List!IsList
      <3> QED
        BY <2>2, <3>1, <3>2, <3>4 DEF List!IsList, Held
    <2>4. ListTyped'
      BY <1>0, <1>4, <2>3 DEF List!Close, ListTyped
    <2> QED
      BY <1>4, <2>4, RenderedKeeps DEF List!Close
  <1>5. ASSUME NEW dim \in DOMAIN chosen, NEW value, List!Filter(dim, value) PROVE ListInv'
    <2>1. ListTyped'
      BY <1>0, <1>5 DEF List!Filter, ListTyped
    <2> QED
      BY <1>5, <2>1, RenderedKeeps DEF List!Filter
  <1>6. ASSUME NEW word, List!Search(word) PROVE ListInv'
    <2>1. ListTyped'
      BY <1>0, <1>6 DEF List!Search, ListTyped
    <2> QED
      BY <1>6, <2>1, RenderedKeeps DEF List!Search
  <1>7. ASSUME NEW k \in {"aum", "pnl"}, List!Sort(k) PROVE ListInv'
    <2>1. ListTyped'
      BY <1>0, <1>7 DEF List!Sort, ListTyped
    <2> QED
      BY <1>7, <2>1, RenderedKeeps DEF List!Sort
  <1>8. ASSUME NEW answer \in Answers, List!Load(answer) PROVE ListInv'
    <2>1. rows' \in {answer, ListOf[page], rows} /\ page' = page
      BY <1>8 DEF List!Load
    <2>2. List!IsList(rows')
      BY <1>0, <2>1, ConstantsAssumption DEF List!ListsAssumption, ListTyped
    <2>3. ListTyped'
      BY <1>0, <1>8, <2>2 DEF List!Load, ListTyped
    <2> QED
      BY <1>8, <2>3, RenderedKeeps DEF List!Load
  <1>9. CASE List!ShowMore
    <2>1. ListTyped'
      BY <1>0, <1>9, ConstantsAssumption DEF List!ShowMore, ListTyped, List!ListsAssumption
    <2> QED
      BY <1>9, <2>1, RenderedKeeps DEF List!ShowMore
  <1>10. CASE List!Refresh \/ List!RefreshDone
    BY <1>10 DEF List!Refresh, List!RefreshDone, ListInv, ListTyped, List!SpinningStops
  <1>11. CASE UNCHANGED List!vars
    BY <1>11 DEF List!vars, ListInv, ListTyped, List!SpinningStops
  <1> QED
    BY <1>1, <1>2, <1>3, <1>4, <1>5, <1>6, <1>7, <1>8, <1>9, <1>10, <1>11 DEF List!Next

\* A row keeps what the reader gave it and no other row gets it, the rows listed
\* are the page's own, each once and all of them when nothing holds them back,
\* and the chips add up, whatever was filtered, searched, sorted, closed or
\* loaded before (TradeHistoryPage, AdminUserManagement, TraderSubscribersPage).
THEOREM RowsKept == Spec => []RowsKeepTheirOwn
  <1> DEFINE Inv == part = "list" => ListInv
  <1>1. Init => Inv
    BY ListInit DEF Init
  <1>2. Inv /\ [Next]_vars => Inv'
    <2> SUFFICES ASSUME Inv, [Next]_vars, part' = "list" PROVE ListInv'
      OBVIOUS
    <2>1. part = "list" /\ [List!Next]_(List!vars)
      BY DEF Next, InSite, InForm, InCash, InList, InSet, vars, listVars, List!vars
    <2> QED
      BY <2>1, ListStep
  <1>3. Inv => RowsKeepTheirOwn
    BY ListInvImplies DEF RowsKeepTheirOwn
  <1> QED
    BY <1>1, <1>2, <1>3, PTL DEF Spec

=============================================================================
