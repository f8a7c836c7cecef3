----------------------------- MODULE ApiHandlers -----------------------------
(***************************************************************************)
(* What the models of API features share: requests that the API serves at  *)
(* once, each a sequence of statements that commit one by one.             *)
(***************************************************************************)
EXTENDS Integers, FiniteSets

CONSTANT
    Handlers        \* API requests served at once

ASSUME HandlersAssumption == IsFiniteSet(Handlers)
=============================================================================
