--------------------------- MODULE MCEvidenceLoop ---------------------------
(* An instance of EvidenceLoop for TLC: an empty case, and one in which    *)
(* one Evidence Object, two measurements and a prediction are reviewed and *)
(* linked; the second evidence file name is free.                          *)
EXTENDS EvidenceLoop

CONSTANTS stress, bow, kelvin, todo, unnamed, K, C, none,
          null, word, numeral, number, nan, infinite

(* The kelvin is the unit registered for the one quantity kind.            *)
MCRegistered == {<<kelvin, K>>}

(* The relative error of an infinite reality.                              *)
MCUndefined == {infinite} \X {number, numeral, infinite}

ReviewedEvidence == [EvidenceDraft(1, TRUE) EXCEPT
  !.status = "reviewed", !.reviewer = TRUE, !.links = MeasurementId]

ReviewedMeasurement(id, q) == [MeasurementDraft(id, 1) EXCEPT
  !.status = "reviewed", !.reviewer = TRUE, !.quantity = q, !.value = number, !.unit = K]

AcceptedPrediction(q) == [PredictionDraft(1, 1) EXCEPT
  !.status = "reviewed", !.reviewer = TRUE, !.quantity = q, !.value = number, !.unit = K,
  !.basis = {1}, !.disposition = "accepted_for_calibration"]

EmptyCase ==
  [ evidence |-> [f \in EvidenceFile |-> Absent],
    measurements |-> [f \in MeasurementFile |-> Absent],
    predictions |-> [f \in RecordFile |-> Absent] ]

ReviewedCase(first, second) ==
  [ evidence |-> [EmptyCase.evidence EXCEPT ![1] = ReviewedEvidence],
    measurements |-> [EmptyCase.measurements EXCEPT
                        ![1] = ReviewedMeasurement(1, first), ![2] = ReviewedMeasurement(2, second)],
    predictions |-> EmptyCase.predictions ]

WithPrediction(s) == [s EXCEPT !.predictions[1] = AcceptedPrediction(s.measurements[1].quantity)]

MCBeginnings == {EmptyCase, WithPrediction(ReviewedCase(stress, bow))}
=============================================================================
