------------------------------- MODULE MCHost -------------------------------
EXTENDS Host

\* Two definitions of one configuration, and one of another profile.
MCDefinitions == {[key |-> "axx", text |-> "old"], [key |-> "axx", text |-> "new"],
                  [key |-> "ci", text |-> "third"]}
=============================================================================
