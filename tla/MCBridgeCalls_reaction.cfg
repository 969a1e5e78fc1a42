\* The newsletter reaction of the example, on one thread of the two.
SPECIFICATION Spec
CONSTANTS
    Threads = {t1, t2}
    Called = {"get_newsletter_messages", "newsletter_send_reaction"}
SYMMETRY ThreadSymmetry
INVARIANTS
    ReactionReturns
CHECK_DEADLOCK FALSE
