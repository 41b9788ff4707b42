---- MODULE VendorConnect ----
(***************************************************************************)
(* `happy connect <vendor>` (src/commands/connect.ts and authenticateCodex,*)
(* authenticateClaude and authenticateGemini under src/commands/connect/): *)
(* a process serves the vendor's redirect on a local port, opens a browser *)
(* page, exchanges the code that comes back for tokens, and gives them to  *)
(* the Happy server and, for Gemini, to the local Gemini CLI. Several such *)
(* processes of one vendor share its default port, and pages outlive the   *)
(* process that opened them.                                               *)
(*                                                                         *)
(* A process stands for the state parameter, the code verifier and the     *)
(* tokens it has made or been given.                                       *)
(***************************************************************************)
EXTENDS Naturals

CONSTANTS
    Connector,     \* processes
    MaxExchanges   \* bound: redirects with a code that a process accepts

ASSUME VendorConnectAssumption == MaxExchanges \in Nat

VARIABLES
    vendor,       \* whom they connect
    stage,        \* where each process stands
    port,         \* the port it has chosen: the default one, or one of its own
    serving,      \* the processes whose callback server listens
    promise,      \* what startCallbackServer's promise has come to
    exchanging,   \* calls of exchangeCodeForTokens under way
    exchanged,    \* history: those begun
    pages,        \* the pages open in the browser, by who opened them
    cloudToken,   \* whose tokens the Happy server has
    localToken    \* whose tokens the Gemini CLI has

vendorVars == <<vendor, stage, port, serving, promise, exchanging, exchanged, pages,
                cloudToken, localToken>>
tokenVars == <<cloudToken, localToken>>

ConnectOver == {"done", "failed", "crashed"}

VendorTypeOK ==
    /\ vendor \in {"codex", "claude", "gemini"}
    /\ stage \in [Connector -> {"probe", "listen", "open", "opening", "await", "register"}
                               \union ConnectOver]
    /\ port \in [Connector -> {"default", "own"}]
    /\ serving \subseteq Connector
    /\ promise \in [Connector -> {"pending", "tokens", "rejected"}]
    /\ \A p \in Connector : exchanging[p] <= exchanged[p] /\ exchanged[p] \in 0..MaxExchanges
    /\ pages \subseteq Connector
    /\ {cloudToken, localToken} \subseteq Connector \union {"before"}

VendorInit ==
    /\ vendor \in {"codex", "claude", "gemini"}
    /\ stage = [p \in Connector |-> "probe"]
    /\ port = [p \in Connector |-> "default"]
    /\ serving = {}
    /\ promise = [p \in Connector |-> "pending"]
    /\ exchanging = [p \in Connector |-> 0]
    /\ exchanged = [p \in Connector |-> 0]
    /\ pages = {}
    /\ cloudToken = "before"
    /\ localToken = "before"

\* The process that listens where q's page redirects to.
Serves(p, q) == p \in serving /\ (p = q \/ (port[p] = "default" /\ port[q] = "default"))

DefaultIsTaken == \E p \in serving : port[p] = "default"

Ends(p, how) ==
    /\ stage' = [stage EXCEPT ![p] = how]
    /\ serving' = serving \ {p}
    /\ exchanging' = [exchanging EXCEPT ![p] = 0]

---------------------------------------------------------------------------
(* The server and the browser.                                             *)

\* isPortAvailable, and findAvailablePort if it is not.
ChoosesPort(p) ==
    /\ stage[p] = "probe"
    /\ stage' = [stage EXCEPT ![p] = "listen"]
    /\ port' = [port EXCEPT ![p] = IF DefaultIsTaken THEN "own" ELSE "default"]
    /\ UNCHANGED <<vendor, serving, promise, exchanging, exchanged, pages, tokenVars>>

\* The port may have been taken since: nobody listens to the server's 'error'.
Listens(p) ==
    /\ stage[p] = "listen"
    /\ IF port[p] = "default" /\ DefaultIsTaken
       THEN Ends(p, "crashed")
       ELSE /\ stage' = [stage EXCEPT ![p] = "open"]
            /\ serving' = serving \union {p}
            /\ UNCHANGED exchanging
    /\ UNCHANGED <<vendor, port, promise, exchanged, pages, tokenVars>>

OpensBrowser(p) ==
    /\ stage[p] = "open"
    /\ stage' = [stage EXCEPT ![p] = "opening"]
    /\ pages' = pages \union {p}
    /\ UNCHANGED <<vendor, port, serving, promise, exchanging, exchanged, tokenVars>>

BrowserIsOpen(p) ==
    /\ stage[p] = "opening"
    /\ stage' = [stage EXCEPT ![p] = "await"]
    /\ UNCHANGED <<vendor, port, serving, promise, exchanging, exchanged, pages, tokenVars>>

---------------------------------------------------------------------------
(* What becomes of the promise.                                            *)

\* The first to settle it does. A rejection ends the process: before the promise is
\* awaited as an unhandled one, afterwards as the failure of the command.
Rejected(p) ==
    IF promise[p] = "pending"
    THEN /\ promise' = [promise EXCEPT ![p] = "rejected"]
         /\ Ends(p, IF stage[p] = "await" THEN "failed" ELSE "crashed")
    ELSE /\ serving' = serving \ {p}
         /\ UNCHANGED <<promise, stage, exchanging>>

\* The redirect of q's page reaches whoever listens there by then.
Redirect(p, q, with) ==
    /\ q \in pages
    /\ Serves(p, q)
    /\ IF p # q \/ with # "code"
       THEN Rejected(p) /\ UNCHANGED exchanged
       ELSE /\ exchanged[p] < MaxExchanges
            /\ exchanged' = [exchanged EXCEPT ![p] = @ + 1]
            /\ exchanging' = [exchanging EXCEPT ![p] = @ + 1]
            /\ UNCHANGED <<promise, stage, serving>>
    /\ UNCHANGED <<vendor, port, pages, tokenVars>>

ExchangeSucceeds(p) ==
    /\ exchanging[p] > 0
    /\ exchanging' = [exchanging EXCEPT ![p] = @ - 1]
    /\ serving' = serving \ {p}
    /\ promise' = IF promise[p] = "pending" THEN [promise EXCEPT ![p] = "tokens"] ELSE promise
    /\ UNCHANGED <<vendor, stage, port, exchanged, pages, tokenVars>>

\* A failure that comes after the promise was settled changes nothing more.
ExchangeFails(p) ==
    /\ exchanging[p] > 0
    /\ IF promise[p] = "pending"
       THEN Rejected(p)
       ELSE /\ exchanging' = [exchanging EXCEPT ![p] = @ - 1]
            /\ serving' = serving \ {p}
            /\ UNCHANGED <<promise, stage>>
    /\ UNCHANGED <<vendor, port, exchanged, pages, tokenVars>>

Timed(p) == stage[p] \in {"open", "opening", "await"}

\* Variant: a code that is being exchanged is waited for.
TimesOutUnlessExchanging(p) ==
    /\ Timed(p)
    /\ exchanging[p] = 0
    /\ Rejected(p)
    /\ UNCHANGED <<vendor, port, exchanged, pages, tokenVars>>

\* Five minutes after the server was started, whatever is under way.
TimesOut(p) ==
    /\ Timed(p)
    /\ Rejected(p)
    /\ UNCHANGED <<vendor, port, exchanged, pages, tokenVars>>

---------------------------------------------------------------------------
(* handleConnectVendor.                                                    *)

HasTokens(p) ==
    /\ stage[p] = "await"
    /\ promise[p] = "tokens"
    /\ stage' = [stage EXCEPT ![p] = "register"]
    /\ UNCHANGED <<vendor, port, serving, promise, exchanging, exchanged, pages, tokenVars>>

\* registerVendorToken, then updateLocalGeminiCredentials, whose failure is only reported.
Registers(p) ==
    /\ stage[p] = "register"
    /\ cloudToken' = p
    /\ localToken' \in IF vendor = "gemini" THEN {p, localToken} ELSE {localToken}
    /\ Ends(p, "done")
    /\ UNCHANGED <<vendor, port, promise, exchanged, pages>>

\* It is refused, or its answer takes longer than five seconds.
RegistrationFails(p) ==
    /\ stage[p] = "register"
    /\ cloudToken' \in {cloudToken, p}
    /\ Ends(p, "failed")
    /\ UNCHANGED <<vendor, port, promise, exchanged, pages, localToken>>

Proceeds(p) ==
    \/ ChoosesPort(p) \/ Listens(p) \/ OpensBrowser(p) \/ BrowserIsOpen(p)
    \/ TimesOut(p)
    \/ HasTokens(p) \/ Registers(p) \/ RegistrationFails(p)

VendorNext ==
    \E p \in Connector :
        \/ Proceeds(p) \/ ExchangeSucceeds(p) \/ ExchangeFails(p)
        \/ \E q \in Connector, with \in {"code", "error"} : Redirect(p, q, with)

VendorSpec == VendorInit /\ [][VendorNext]_vendorVars

\* Timers and timeouts, and the opening of the browser comes to an end; neither the user nor
\* the vendor need ever answer.
VendorFairSpec == VendorSpec /\ \A p \in Connector : WF_vendorVars(Proceeds(p))

---------------------------------------------------------------------------
(* Properties.                                                             *)

\* Every command that has chosen its port ends, whether redirects come twice, late, for
\* another process or never, and although the exchange of a code has no timeout of its
\* own. (authenticateCodex.ts:202)
EveryConnectEnds == []<>(\A p \in Connector : stage[p] \in ConnectOver \union {"probe"})

====
