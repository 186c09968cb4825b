------------------------------- MODULE MCLink -------------------------------
(* Instances of Link for TLC. *)
EXTENDS Link

Lp(pause, full) == [pause |-> pause, full |-> full]

Base == [media |-> "copper", ich |-> TRUE, default |-> {"rx", "tx"}, modes |-> {},
         partners |-> {Lp({"pause", "asm"}, TRUE)}, changes |-> 2, sets |-> 1, errs |-> 0, noises |-> 0]

MCSetups ==
  { \* All partners, changing, for each default.
    [Base EXCEPT !.partners = Partners, !.sets = 0],
    [Base EXCEPT !.partners = Partners, !.sets = 0, !.ich = FALSE, !.default = {"rx"}],
    [Base EXCEPT !.partners = Partners, !.sets = 0, !.default = {"tx"}],
    [Base EXCEPT !.partners = Partners, !.sets = 0, !.default = {}],
    \* Resets and modes the user sets.
    [Base EXCEPT !.modes = Modes, !.sets = 2, !.changes = 1, !.partners = @ \cup {Lp({}, TRUE)}],
    [Base EXCEPT !.modes = Modes, !.sets = 2, !.changes = 1, !.default = {"rx"}, !.ich = FALSE],
    \* A PHY that does not answer.
    [Base EXCEPT !.errs = 2, !.sets = 0],
    [Base EXCEPT !.errs = 2, !.ich = FALSE],
    \* Fiber and serdes.
    [Base EXCEPT !.media = "fiber", !.changes = 4],
    [Base EXCEPT !.media = "serdes", !.changes = 4, !.noises = 2],
    [Base EXCEPT !.media = "serdes82571", !.changes = 4, !.noises = 2] }
=============================================================================
