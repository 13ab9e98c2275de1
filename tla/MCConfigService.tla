---------------------------- MODULE MCConfigService ----------------------------
(* An instance of ConfigService for TLC. *)
EXTENDS ConfigService

\* Two short contents and a long one.
MCLength == [c \in Contents |-> IF c = 2 THEN 2 ELSE 1]
================================================================================
