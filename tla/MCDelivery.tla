----------------------------- MODULE MCDelivery -----------------------------
EXTENDS Delivery
=============================================================================
