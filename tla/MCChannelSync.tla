--------------------------- MODULE MCChannelSync ---------------------------
EXTENDS ChannelSync

CONSTANTS c1, n1, n2

BothEnds == [c \in Channels |-> Nodes]

=============================================================================
