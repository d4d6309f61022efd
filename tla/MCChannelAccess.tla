-------------------------- MODULE MCChannelAccess --------------------------
EXTENDS ChannelAccess

\* The second Txop has the longer AIFS.
MCAifsn == [t \in Txop |-> t]
=============================================================================
