---------------------------- MODULE Verification ----------------------------
(***************************************************************************)
(* What an agent does with an attestation bundle once it has fetched it:   *)
(* Runner.Process from the trusted keys to the result, with the bundle's   *)
(* signature, verify.StrictVerifier, its policy and the client of the DCAP *)
(* verifier.  One step per check, in the order of the code.  The bundle,   *)
(* the quote in it, the policy and the verifier's answer are arbitrary.    *)
(*                                                                         *)
(* A hash is the key that was hashed; the tail of the report data stands   *)
(* for its last 32 bytes.                                                  *)
(***************************************************************************)
EXTENDS Naturals, FiniteSets

CONSTANTS
  SSHKeys,       \* public keys a quote may attest to
  Measurements,  \* values of MRTD and RTMR3
  Missing        \* an absent field

ASSUME VerificationAssumption == Missing \notin SSHKeys

VARIABLES
  bundle,   \* the signed bundle, as received
  quote,    \* what is true of the quote in it
  policy,   \* the allowlists of StaticPolicy
  pc,       \* the check that comes next
  result,   \* the DCAPResult
  reason,   \* the reason code of a failure
  key,      \* the key installed on the device
  faults    \* the dependencies that failed (history)

vars == <<bundle, quote, policy, pc, result, reason, key, faults>>
input == <<bundle, quote, policy>>

-----------------------------------------------------------------------------
BundleInvalid       == "BundleInvalid"
DependencyFailure   == "AttestationDependencyFailure"
QuoteInvalid        == "QuoteInvalid"
MeasurementMismatch == "MeasurementMismatch"
ReportDataMismatch  == "ReportDataMismatch"
TransportFailure    == "TransportFailure"
NoReason            == "none"

Flags == [quote_valid : BOOLEAN, qe_identity_valid : BOOLEAN, tcb_valid : BOOLEAN]

(* known: the kid is in the trusted keys.  signed: the signature is that of*)
(* the key over this very payload.                                         *)
Bundles ==
  [known : BOOLEAN, ed25519 : BOOLEAN, signed : BOOLEAN,
   ssh_public_key : SSHKeys \union {Missing}, quote_hex : BOOLEAN,
   mrtd : Measurements, rtmr3 : Measurements, rtmr0to2 : BOOLEAN]

Tails   == {"zeros", "other"}
Quotes  == [flags : Flags, hash : SSHKeys, tail : Tails]
Policies == [allowedMRTD : SUBSET Measurements, allowedRTMR3 : SUBSET Measurements]

(* A response of the DCAP verifier: its flags, and the report data in one  *)
(* of the forms that are sent.                                             *)
Forms   == {"absent", "undecodable", "32 bytes", "64 bytes"}
NoFlags == [quote_valid |-> FALSE, qe_identity_valid |-> FALSE, tcb_valid |-> FALSE]
Blank   == [flags |-> NoFlags, form |-> "absent"]

NoResult == [flags |-> NoFlags, hash |-> Missing, tail |-> "zeros"]

-----------------------------------------------------------------------------
(* Two of the definitions below have a variant beside them, a slip that    *)
(* would be easy to make; the runs use neither.                            *)
SignatureOK(b) == b.known /\ b.ed25519 /\ b.signed

(* parseBundlePayload                                                      *)
PayloadOK(b) == b.ssh_public_key # Missing /\ b.quote_hex

QuoteOK(flags) == flags.quote_valid /\ flags.qe_identity_valid /\ flags.tcb_valid

(* StaticPolicy.CheckMeasurements: an empty allowlist allows everything.   *)
Allowed(list, value) == list = {} \/ value \in list

MeasurementsOK(b, p) ==
  /\ Allowed(p.allowedMRTD, b.mrtd)
  /\ Allowed(p.allowedRTMR3, b.rtmr3)
  /\ b.rtmr0to2

(* The verifier's body may be wrapped in a "result".                       *)
UnwrapVariant(top, nested) == top
Unwrap(top, nested) == IF nested = Blank THEN top ELSE nested

(* parseReportDataHex pads 32 bytes with zeros.                            *)
Decodable(form) == form \in {"32 bytes", "64 bytes"}

DecodedVariant(res) == [flags |-> res.flags, hash |-> quote.hash,
                        tail  |-> IF res.form = "32 bytes" THEN Missing ELSE quote.tail]
Decoded(res) ==
  [flags |-> res.flags, hash |-> quote.hash,
   tail  |-> IF res.form = "32 bytes" THEN "zeros" ELSE quote.tail]

(* ComputeExpectedReportData                                               *)
ReportDataOK(b, r) == r.hash = b.ssh_public_key /\ r.tail = "zeros"

-----------------------------------------------------------------------------
Fail(code) == pc' = "failed" /\ reason' = code
Pass(next) == pc' = next /\ UNCHANGED reason
Check(ok, code, next) == IF ok THEN Pass(next) ELSE Fail(code)

Init ==
  /\ bundle \in Bundles
  /\ quote  \in Quotes
  /\ policy \in Policies
  /\ pc     = "keys"
  /\ result = NoResult
  /\ reason = NoReason
  /\ key    = Missing
  /\ faults = {}

TrustedKeys ==
  /\ pc = "keys"
  /\ \/ Pass("signature") /\ UNCHANGED faults
     \/ Fail(BundleInvalid) /\ faults' = faults \union {"keyset"}
  /\ UNCHANGED <<input, result, key>>

VerifySignedBundle ==
  /\ pc = "signature"
  /\ Check(SignatureOK(bundle), BundleInvalid, "payload")
  /\ UNCHANGED <<input, result, key, faults>>

ParsePayload ==
  /\ pc = "payload"
  /\ Check(PayloadOK(bundle), BundleInvalid, "dcap")
  /\ UNCHANGED <<input, result, key, faults>>

(* The call fails, is answered with another status or with something that  *)
(* is not JSON.                                                            *)
VerifierUnavailable ==
  /\ pc = "dcap"
  /\ Fail(DependencyFailure)
  /\ faults' = faults \union {"verifier"}
  /\ UNCHANGED <<input, result, key>>

(* The verifier answers what is true of the quote, plain or wrapped, with  *)
(* the report data in the form it chooses.                                 *)
VerifierAnswers(form, wrapped) ==
  LET res == [flags |-> quote.flags, form |-> form]
      src == IF wrapped THEN Unwrap(Blank, res) ELSE Unwrap(res, Blank)
  IN  /\ pc = "dcap"
      /\ IF Decodable(src.form)
         THEN Pass("quote") /\ result' = Decoded(src)
         ELSE Fail(DependencyFailure) /\ UNCHANGED result
      /\ faults' = faults \union {f \in {"report data"} : ~Decodable(form)}
      /\ UNCHANGED <<input, key>>

CheckQuote ==
  /\ pc = "quote"
  /\ Check(QuoteOK(result.flags), QuoteInvalid, "measurements")
  /\ UNCHANGED <<input, result, key, faults>>

CheckMeasurements ==
  /\ pc = "measurements"
  /\ Check(MeasurementsOK(bundle, policy), MeasurementMismatch, "report data")
  /\ UNCHANGED <<input, result, key, faults>>

CheckReportData ==
  /\ pc = "report data"
  /\ Check(ReportDataOK(bundle, result), ReportDataMismatch, "install")
  /\ UNCHANGED <<input, result, key, faults>>

InstallKey ==
  /\ pc = "install"
  /\ \/ Pass("connected") /\ key' = bundle.ssh_public_key /\ UNCHANGED faults
     \/ Fail(TransportFailure) /\ faults' = faults \union {"install"} /\ UNCHANGED key
  /\ UNCHANGED <<input, result>>

(* The next request; what was decided stays as it was.                     *)
Done == pc \in {"connected", "failed"} /\ UNCHANGED vars

Next ==
  \/ TrustedKeys \/ VerifySignedBundle \/ ParsePayload
  \/ VerifierUnavailable
  \/ \E form \in Forms, wrapped \in BOOLEAN : VerifierAnswers(form, wrapped)
  \/ CheckQuote \/ CheckMeasurements \/ CheckReportData
  \/ InstallKey
  \/ Done

Spec == Init /\ [][Next]_vars

-----------------------------------------------------------------------------
(* Every variable has its type; parseReportDataHex always yields 64 bytes. *)
TypeOK ==
  /\ bundle \in Bundles /\ quote \in Quotes /\ policy \in Policies
  /\ pc \in {"keys", "signature", "payload", "dcap", "quote", "measurements",
             "report data", "install", "connected", "failed"}
  /\ result \in [flags : Flags, hash : SSHKeys \union {Missing}, tail : Tails]
  /\ reason \in {NoReason, BundleInvalid, DependencyFailure, QuoteInvalid,
                 MeasurementMismatch, ReportDataMismatch, TransportFailure}
  /\ key \in SSHKeys \union {Missing}
  /\ faults \subseteq {"keyset", "verifier", "report data", "install"}

(* The reason codes in the order of the checks, and what each one says     *)
(* (attestation-failure-codes.md), of the facts and not of the code.       *)
Codes == <<BundleInvalid, DependencyFailure, QuoteInvalid, MeasurementMismatch,
           ReportDataMismatch, TransportFailure>>

Applies(code) ==
  CASE code = BundleInvalid ->
         "keyset" \in faults \/ Missing = bundle.ssh_public_key
           \/ FALSE \in {bundle.known, bundle.ed25519, bundle.signed, bundle.quote_hex}
    [] code = DependencyFailure -> faults \intersect {"verifier", "report data"} # {}
    [] code = QuoteInvalid -> \E f \in DOMAIN quote.flags : ~quote.flags[f]
    [] code = MeasurementMismatch ->
         \/ policy.allowedMRTD # {} /\ bundle.mrtd \notin policy.allowedMRTD
         \/ policy.allowedRTMR3 # {} /\ bundle.rtmr3 \notin policy.allowedRTMR3
         \/ ~bundle.rtmr0to2
    [] code = ReportDataMismatch ->
         quote.hash # bundle.ssh_public_key \/ result.tail # "zeros"
    [] code = TransportFailure -> "install" \in faults

(* A key is on the device exactly when nothing speaks against it, and a    *)
(* failure is reported with the first code that applies, however the       *)
(* verifier chose to answer.                                               *)
StrictOutcome ==
  LET failing == {i \in DOMAIN Codes : Applies(Codes[i])}
  IN  /\ pc = "connected" => failing = {} /\ key = bundle.ssh_public_key
      /\ pc = "failed" =>
           /\ key = Missing
           /\ \E i \in failing : reason = Codes[i] /\ \A j \in failing : i <= j
=============================================================================
