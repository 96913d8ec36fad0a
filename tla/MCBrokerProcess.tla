--------------------------- MODULE MCBrokerProcess ---------------------------
\* The instance of BrokerProcess: octal modes as sets of permission bits.
EXTENDS BrokerProcess

Mode(group, other) ==
  May({"owner"}, {"r", "w"}) \cup May({"group"}, group) \cup May({"other"}, other)

SomeModes == {Mode({}, {}), Mode({"r"}, {}), Mode({"r"}, {"r"})}
=============================================================================
