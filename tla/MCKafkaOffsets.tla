--------------------------- MODULE MCKafkaOffsets ---------------------------
(* Small instances of KafkaOffsets for TLC. *)
EXTENDS KafkaOffsets
=============================================================================
