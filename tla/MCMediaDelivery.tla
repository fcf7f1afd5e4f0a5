--------------------------- MODULE MCMediaDelivery ---------------------------
EXTENDS MediaDelivery, TLC
=============================================================================
