------------------------- MODULE VerificationProofs -------------------------
(***************************************************************************)
(* Strict verification decides as the documented order of the reason codes *)
(* says, for every bundle, quote, policy and answer of the verifier.       *)
(*                                                                         *)
(* The invariant records, for every check the run is past, that its code   *)
(* does not apply; a failing check then makes its own code the first one.  *)
(***************************************************************************)
EXTENDS Verification, TLAPS

(* Where a run is once the named check has been passed.                    *)
AfterReportData   == {"install", "connected"}
AfterMeasurements == {"report data"} \union AfterReportData
AfterQuote        == {"measurements"} \union AfterMeasurements
AfterDcap         == {"quote"} \union AfterQuote
AfterPayload      == {"dcap"} \union AfterDcap
AfterSignature    == {"payload"} \union AfterPayload

(* A passed check held, and no dependency has failed, while the run goes   *)
(* on; what the verifier answered is what is true of the quote.            *)
Passed ==
  /\ pc # "failed" => faults = {} /\ reason = NoReason
  /\ key = IF pc = "connected" THEN bundle.ssh_public_key ELSE Missing
  /\ pc \in AfterSignature => SignatureOK(bundle)
  /\ pc \in AfterPayload => PayloadOK(bundle)
  /\ pc \in AfterDcap => result.flags = quote.flags /\ result.hash = quote.hash
  /\ pc \in AfterQuote => QuoteOK(quote.flags)
  /\ pc \in AfterMeasurements => MeasurementsOK(bundle, policy)
  /\ pc \in AfterReportData => ReportDataOK(bundle, result)

(* What must hold for each code, in order, not to apply.                   *)
BundleOK     == "keyset" \notin faults /\ SignatureOK(bundle) /\ PayloadOK(bundle)
VerifierOK   == "verifier" \notin faults /\ "report data" \notin faults
PolicyOK     == MeasurementsOK(bundle, policy)
AttestedOK   == quote.hash = bundle.ssh_public_key /\ result.tail = "zeros"
InstallOK    == "install" \notin faults

(* A run that failed was rejected by the check that reports its code, and  *)
(* by none before it.                                                      *)
Rejected ==
  pc = "failed" =>
    \/ reason = BundleInvalid /\ ~BundleOK
    \/ reason = DependencyFailure /\ BundleOK /\ ~VerifierOK
    \/ reason = QuoteInvalid /\ BundleOK /\ VerifierOK /\ ~QuoteOK(quote.flags)
    \/ reason = MeasurementMismatch /\ BundleOK /\ VerifierOK /\ QuoteOK(quote.flags) /\ ~PolicyOK
    \/ /\ reason = ReportDataMismatch
       /\ BundleOK /\ VerifierOK /\ QuoteOK(quote.flags) /\ PolicyOK /\ ~AttestedOK
    \/ /\ reason = TransportFailure
       /\ BundleOK /\ VerifierOK /\ QuoteOK(quote.flags) /\ PolicyOK /\ AttestedOK /\ ~InstallOK

VerificationInv == TypeOK /\ Passed /\ Rejected

USE DEF BundleInvalid, DependencyFailure, QuoteInvalid, MeasurementMismatch,
        ReportDataMismatch, TransportFailure, NoReason

-----------------------------------------------------------------------------
(* What each reason code says of the facts is what the check that reports  *)
(* it rejects.                                                             *)
LEMMA BundleCode ==
  ASSUME TypeOK
  PROVE  Applies(BundleInvalid)
           <=> "keyset" \in faults \/ ~SignatureOK(bundle) \/ ~PayloadOK(bundle)
<1>1. /\ bundle.known \in BOOLEAN /\ bundle.ed25519 \in BOOLEAN
      /\ bundle.signed \in BOOLEAN /\ bundle.quote_hex \in BOOLEAN
  BY DEF TypeOK, Bundles
<1>2. Applies(BundleInvalid)
        <=> \/ "keyset" \in faults \/ Missing = bundle.ssh_public_key
            \/ FALSE \in {bundle.known, bundle.ed25519, bundle.signed, bundle.quote_hex}
  BY DEF Applies
<1> QED  BY <1>1, <1>2 DEF SignatureOK, PayloadOK

LEMMA DependencyCode ==
  Applies(DependencyFailure) <=> "verifier" \in faults \/ "report data" \in faults
BY DEF Applies

LEMMA QuoteCode ==
  ASSUME TypeOK
  PROVE  Applies(QuoteInvalid) <=> ~QuoteOK(quote.flags)
<1>1. quote.flags \in Flags
  BY DEF TypeOK, Quotes
<1>2. DOMAIN quote.flags = {"quote_valid", "qe_identity_valid", "tcb_valid"}
  BY <1>1 DEF Flags
<1>3. Applies(QuoteInvalid) <=> \E f \in DOMAIN quote.flags : ~quote.flags[f]
  BY DEF Applies
<1> QED  BY <1>2, <1>3 DEF QuoteOK

LEMMA MeasurementCode ==
  Applies(MeasurementMismatch) <=> ~MeasurementsOK(bundle, policy)
BY DEF Applies, MeasurementsOK, Allowed

LEMMA ReportDataCode ==
  Applies(ReportDataMismatch)
    <=> quote.hash # bundle.ssh_public_key \/ result.tail # "zeros"
BY DEF Applies

LEMMA TransportCode ==
  Applies(TransportFailure) <=> "install" \in faults
BY DEF Applies

-----------------------------------------------------------------------------
(* Each code is reported with its own place in the order of the checks.    *)
LEMMA CodeOrder ==
  /\ DOMAIN Codes = 1 .. 6
  /\ Codes[1] = BundleInvalid /\ Codes[2] = DependencyFailure
  /\ Codes[3] = QuoteInvalid /\ Codes[4] = MeasurementMismatch
  /\ Codes[5] = ReportDataMismatch /\ Codes[6] = TransportFailure
BY DEF Codes

(* A run that ends in failure with a code that applies, none before it     *)
(* applying, is a strict outcome.                                          *)
LEMMA FirstCode ==
  ASSUME NEW i \in 1 .. 6, pc = "failed", key = Missing, reason = Codes[i],
         Applies(Codes[i]), \A j \in 1 .. 6 : j < i => ~Applies(Codes[j])
  PROVE  StrictOutcome
<1> DEFINE failing == {j \in DOMAIN Codes : Applies(Codes[j])}
<1>1. i \in failing /\ \A j \in failing : i <= j
  BY CodeOrder
<1> QED  BY <1>1 DEF StrictOutcome

-----------------------------------------------------------------------------
LEMMA InitInv == Init => VerificationInv
<1> SUFFICES ASSUME Init PROVE VerificationInv
  OBVIOUS
<1>1. NoResult \in [flags : Flags, hash : SSHKeys \union {Missing}, tail : Tails]
  BY DEF NoResult, NoFlags, Flags, Tails
<1>2. TypeOK
  BY <1>1 DEF Init, TypeOK
<1>3. Passed
  BY DEF Init, Passed, AfterSignature, AfterPayload, AfterDcap, AfterQuote,
         AfterMeasurements, AfterReportData
<1>4. Rejected
  BY DEF Init, Rejected
<1> QED  BY <1>2, <1>3, <1>4 DEF VerificationInv

(* What the verifier answered and the client decoded.                      *)
LEMMA AnswerDecoded ==
  ASSUME NEW form \in Forms, NEW wrapped \in BOOLEAN, VerifierAnswers(form, wrapped)
  PROVE  /\ pc = "dcap" /\ UNCHANGED <<input, key>>
         /\ \/ /\ pc' = "quote" /\ reason' = reason /\ faults' = faults
               /\ \E r \in {quote.tail, "zeros"} :
                    result' = [flags |-> quote.flags, hash |-> quote.hash, tail |-> r]
            \/ /\ pc' = "failed" /\ reason' = DependencyFailure
               /\ result' = result /\ faults' = faults \union {"report data"}
<1> DEFINE res == [flags |-> quote.flags, form |-> form]
           src == IF wrapped THEN Unwrap(Blank, res) ELSE Unwrap(res, Blank)
<1>1. src = res
  BY DEF Unwrap
<1>2. IF Decodable(src.form) THEN Pass("quote") /\ result' = Decoded(src)
                              ELSE Fail(DependencyFailure) /\ UNCHANGED result
  BY DEF VerifierAnswers
<1>3. IF Decodable(form) THEN Pass("quote") /\ result' = Decoded(res)
                          ELSE Fail(DependencyFailure) /\ UNCHANGED result
  <2> HIDE DEF src
  <2>1. res.form = form
    OBVIOUS
  <2> HIDE DEF res
  <2> QED  BY <1>1, <1>2, <2>1
<1>4. CASE Decodable(form)
  <2>1. Pass("quote") /\ result' = Decoded(res)
    BY <1>3, <1>4
  <2>2. faults' = faults
    BY <1>4 DEF VerifierAnswers
  <2> QED  BY <2>1, <2>2 DEF VerifierAnswers, Pass, Decoded
<1>5. CASE ~Decodable(form)
  <2>1. Fail(DependencyFailure) /\ UNCHANGED result
    BY <1>3, <1>5
  <2>2. faults' = faults \union {"report data"}
    BY <1>5 DEF VerifierAnswers
  <2> QED  BY <2>1, <2>2 DEF VerifierAnswers, Fail
<1> QED  BY <1>4, <1>5

LEMMA TypeStep == TypeOK /\ [Next]_vars => TypeOK'
<1> SUFFICES ASSUME TypeOK, [Next]_vars PROVE TypeOK'
  OBVIOUS
<1> USE DEF TypeOK, Fail, Pass, Check, input
<1>1. CASE TrustedKeys
  BY <1>1 DEF TrustedKeys
<1>2. CASE VerifySignedBundle
  BY <1>2 DEF VerifySignedBundle
<1>3. CASE ParsePayload
  BY <1>3 DEF ParsePayload
<1>4. CASE VerifierUnavailable
  BY <1>4 DEF VerifierUnavailable
<1>5. ASSUME NEW form \in Forms, NEW wrapped \in BOOLEAN, VerifierAnswers(form, wrapped)
      PROVE  TypeOK'
  <2>1. quote.flags \in Flags /\ quote.hash \in SSHKeys /\ quote.tail \in Tails
    BY DEF Quotes
  <2>2. "zeros" \in Tails
    BY DEF Tails
  <2>3. \A t \in Tails : [flags |-> quote.flags, hash |-> quote.hash, tail |-> t]
                           \in [flags : Flags, hash : SSHKeys \union {Missing}, tail : Tails]
    BY <2>1
  <2>4. result' \in [flags : Flags, hash : SSHKeys \union {Missing}, tail : Tails]
    <3>1. \/ result' = result
          \/ \E t \in Tails :
               result' = [flags |-> quote.flags, hash |-> quote.hash, tail |-> t]
      BY <1>5, <2>1, <2>2, AnswerDecoded
    <3> QED  BY <2>3, <3>1
  <2> QED  BY <1>5, <2>4, AnswerDecoded
<1>6. CASE CheckQuote
  BY <1>6 DEF CheckQuote
<1>7. CASE CheckMeasurements
  BY <1>7 DEF CheckMeasurements
<1>8. CASE CheckReportData
  BY <1>8 DEF CheckReportData
<1>9. CASE InstallKey
  <2>1. bundle.ssh_public_key \in SSHKeys \union {Missing}
    BY DEF Bundles
  <2> QED  BY <1>9, <2>1 DEF InstallKey
<1>10. CASE Done
  BY <1>10 DEF Done, vars
<1>11. CASE UNCHANGED vars
  BY <1>11 DEF vars
<1> QED
  BY <1>1, <1>2, <1>3, <1>4, <1>5, <1>6, <1>7, <1>8, <1>9, <1>10, <1>11 DEF Next

LEMMA PassedStep == TypeOK /\ Passed /\ [Next]_vars => Passed'
<1> SUFFICES ASSUME TypeOK, Passed, [Next]_vars PROVE Passed'
  OBVIOUS
<1> USE DEF Passed, Fail, Pass, Check, input, AfterSignature, AfterPayload, AfterDcap,
            AfterQuote, AfterMeasurements, AfterReportData
<1>1. CASE TrustedKeys
  BY <1>1 DEF TrustedKeys
<1>2. CASE VerifySignedBundle
  BY <1>2 DEF VerifySignedBundle
<1>3. CASE ParsePayload
  BY <1>3 DEF ParsePayload
<1>4. CASE VerifierUnavailable
  BY <1>4 DEF VerifierUnavailable
<1>5. ASSUME NEW form \in Forms, NEW wrapped \in BOOLEAN, VerifierAnswers(form, wrapped)
      PROVE  Passed'
  <2>1. /\ pc = "dcap" /\ UNCHANGED <<input, key>>
        /\ \/ /\ pc' = "quote" /\ reason' = reason /\ faults' = faults
              /\ result'.flags = quote.flags /\ result'.hash = quote.hash
           \/ pc' = "failed"
    <3> HIDE DEF Passed, input
    <3>1. \A r : LET d == [flags |-> quote.flags, hash |-> quote.hash, tail |-> r]
                 IN  d.flags = quote.flags /\ d.hash = quote.hash
      OBVIOUS
    <3> QED  BY <1>5, <3>1, AnswerDecoded
  <2> QED  BY <2>1
<1>6. CASE CheckQuote
  BY <1>6 DEF CheckQuote
<1>7. CASE CheckMeasurements
  BY <1>7 DEF CheckMeasurements
<1>8. CASE CheckReportData
  BY <1>8 DEF CheckReportData
<1>9. CASE InstallKey
  BY <1>9 DEF InstallKey
<1>10. CASE Done
  BY <1>10 DEF Done, vars
<1>11. CASE UNCHANGED vars
  BY <1>11 DEF vars
<1> QED
  BY <1>1, <1>2, <1>3, <1>4, <1>5, <1>6, <1>7, <1>8, <1>9, <1>10, <1>11 DEF Next

LEMMA RejectedStep == TypeOK /\ Passed /\ Rejected /\ [Next]_vars => Rejected'
<1> SUFFICES ASSUME TypeOK, Passed, Rejected, [Next]_vars PROVE Rejected'
  OBVIOUS
<1> USE DEF Passed, Rejected, BundleOK, VerifierOK, PolicyOK, AttestedOK, InstallOK, Fail, Pass,
            Check, input, AfterSignature, AfterPayload, AfterDcap, AfterQuote,
            AfterMeasurements, AfterReportData
<1>1. CASE TrustedKeys
  BY <1>1 DEF TrustedKeys
<1>2. CASE VerifySignedBundle
  BY <1>2 DEF VerifySignedBundle
<1>3. CASE ParsePayload
  BY <1>3 DEF ParsePayload
<1>4. CASE VerifierUnavailable
  BY <1>4 DEF VerifierUnavailable
<1>5. ASSUME NEW form \in Forms, NEW wrapped \in BOOLEAN, VerifierAnswers(form, wrapped)
      PROVE  Rejected'
  <2>1. /\ pc = "dcap" /\ UNCHANGED <<input, key>>
        /\ \/ pc' = "quote"
           \/ /\ pc' = "failed" /\ reason' = DependencyFailure
              /\ result' = result /\ faults' = faults \union {"report data"}
    <3> HIDE DEF Passed, Rejected, input
    <3> QED  BY <1>5, AnswerDecoded
  <2>2. bundle' = bundle /\ BundleOK /\ faults = {}
    BY <2>1
  <2>3. CASE pc' = "failed"
    <3>1. faults' = {"report data"} /\ reason' = DependencyFailure
      BY <2>1, <2>2, <2>3
    <3>2. BundleOK' /\ ~VerifierOK'
      BY <2>2, <3>1
    <3> QED  BY <3>1, <3>2
  <2> QED  BY <2>1, <2>3
<1>6. CASE CheckQuote
  BY <1>6 DEF CheckQuote
<1>7. CASE CheckMeasurements
  BY <1>7 DEF CheckMeasurements
<1>8. CASE CheckReportData
  BY <1>8 DEF CheckReportData, ReportDataOK
<1>9. CASE InstallKey
  <2>1. /\ BundleOK /\ VerifierOK /\ QuoteOK(quote.flags) /\ PolicyOK /\ AttestedOK
        /\ faults = {} /\ UNCHANGED <<bundle, quote, policy, result>>
    BY <1>9 DEF InstallKey, ReportDataOK
  <2>2. CASE pc' = "failed"
    <3>1. faults' = {"install"} /\ reason' = TransportFailure
      BY <1>9, <2>1, <2>2 DEF InstallKey
    <3>2. /\ BundleOK' /\ VerifierOK' /\ QuoteOK(quote.flags)' /\ PolicyOK' /\ AttestedOK'
          /\ ~InstallOK'
      BY <2>1, <3>1
    <3> QED  BY <3>1, <3>2
  <2> QED  BY <2>2
<1>10. CASE Done
  BY <1>10 DEF Done, vars
<1>11. CASE UNCHANGED vars
  BY <1>11 DEF vars
<1> QED
  BY <1>1, <1>2, <1>3, <1>4, <1>5, <1>6, <1>7, <1>8, <1>9, <1>10, <1>11 DEF Next

-----------------------------------------------------------------------------
(* The invariant gives the outcome: a run that was rejected reports the    *)
(* first code that applies, and no code applies to one that connected.     *)
LEMMA InvOutcome == VerificationInv => StrictOutcome
<1> SUFFICES ASSUME VerificationInv PROVE StrictOutcome
  OBVIOUS
<1>1. /\ Applies(Codes[1]) <=> ~BundleOK
      /\ Applies(Codes[2]) <=> ~VerifierOK
      /\ Applies(Codes[3]) <=> ~QuoteOK(quote.flags)
      /\ Applies(Codes[4]) <=> ~PolicyOK
      /\ Applies(Codes[5]) <=> ~AttestedOK
      /\ Applies(Codes[6]) <=> ~InstallOK
  BY BundleCode, DependencyCode, QuoteCode, MeasurementCode, ReportDataCode, TransportCode,
     CodeOrder
     DEF VerificationInv, BundleOK, VerifierOK, PolicyOK, AttestedOK, InstallOK
<1>2. CASE pc = "failed"
  <2>1. key = Missing
    BY <1>2 DEF VerificationInv, Passed
  <2>2. \E i \in 1 .. 6 : /\ reason = Codes[i] /\ Applies(Codes[i])
                          /\ \A j \in 1 .. 6 : j < i => ~Applies(Codes[j])
    <3>1. CASE ~BundleOK
      BY <1>1, <1>2, <3>1, CodeOrder DEF VerificationInv, Rejected
    <3>2. CASE BundleOK /\ ~VerifierOK
      BY <1>1, <1>2, <3>2, CodeOrder DEF VerificationInv, Rejected
    <3>3. CASE BundleOK /\ VerifierOK /\ ~QuoteOK(quote.flags)
      BY <1>1, <1>2, <3>3, CodeOrder DEF VerificationInv, Rejected
    <3>4. CASE BundleOK /\ VerifierOK /\ QuoteOK(quote.flags) /\ ~PolicyOK
      BY <1>1, <1>2, <3>4, CodeOrder DEF VerificationInv, Rejected
    <3>5. CASE BundleOK /\ VerifierOK /\ QuoteOK(quote.flags) /\ PolicyOK /\ ~AttestedOK
      BY <1>1, <1>2, <3>5, CodeOrder DEF VerificationInv, Rejected
    <3>6. CASE BundleOK /\ VerifierOK /\ QuoteOK(quote.flags) /\ PolicyOK /\ AttestedOK
      BY <1>1, <1>2, <3>6, CodeOrder DEF VerificationInv, Rejected
    <3> QED  BY <3>1, <3>2, <3>3, <3>4, <3>5, <3>6
  <2> QED  BY <1>2, <2>1, <2>2, FirstCode
<1>3. CASE pc = "connected"
  <2>1. BundleOK /\ VerifierOK /\ QuoteOK(quote.flags) /\ PolicyOK /\ AttestedOK /\ InstallOK
    BY <1>3 DEF VerificationInv, Passed, ReportDataOK, AfterSignature, AfterPayload, AfterDcap,
                AfterQuote, AfterMeasurements, AfterReportData,
                BundleOK, VerifierOK, PolicyOK, AttestedOK, InstallOK
  <2>2. {j \in DOMAIN Codes : Applies(Codes[j])} = {}
    BY <1>1, <2>1, CodeOrder
  <2>3. key = bundle.ssh_public_key
    BY <1>3 DEF VerificationInv, Passed
  <2> QED  BY <1>3, <2>2, <2>3 DEF StrictOutcome
<1>4. CASE pc \notin {"failed", "connected"}
  BY <1>4 DEF StrictOutcome
<1> QED  BY <1>2, <1>3, <1>4

LEMMA InvStep == VerificationInv /\ [Next]_vars => VerificationInv'
BY TypeStep, PassedStep, RejectedStep DEF VerificationInv

(* TypeOK is an invariant: whatever the verifier answers, the report data  *)
(* the client decodes has its full length.                                 *)
THEOREM VerificationTypeCorrect == Spec => []TypeOK
<1>1. VerificationInv => TypeOK
  BY DEF VerificationInv
<1> QED  BY <1>1, InitInv, InvStep, PTL DEF Spec

(* StrictOutcome is an invariant: the key of a bundle is installed only    *)
(* when its signature, its payload, the verifier, the quote, the policy    *)
(* and the report data all agree, and a failure carries the first code     *)
(* that applies.                                                           *)
THEOREM VerificationIsStrict == Spec => []StrictOutcome
BY InitInv, InvStep, InvOutcome, PTL DEF Spec
=============================================================================
