-------------------------- MODULE EdgeTokenProvider -------------------------
(***************************************************************************)
(* The DRM token of a request: EdgeTokenProvider with its corrected clock, *)
(* and the service, which accepts the tokens of the windows around its own *)
(* time.                                                                   *)
(***************************************************************************)
EXTENDS Integers

CONSTANT
  Window   \* seconds for which one token is valid (300)

ASSUME WindowAssumption == Window \in Nat \ {0}

VARIABLES
  now,     \* IClock::now()
  drift,   \* the service's clock minus now
  skew,    \* EdgeTokenProvider::clock_skew_seconds_
  token    \* the window the last token was made for

\* Sec-MS-GEC names the window that holds the corrected time; the epoch the
\* code adds is a whole number of windows.
sec_ms_gec(time, correction) == (time + correction) \div Window

adjust_clock_skew(seconds) == skew' = skew + seconds

\* The service.
ServerTime == now + drift

TokenAccepted == token - (ServerTime \div Window) \in -1..1
=============================================================================
