-------------------------- MODULE EmailDeliveryMC --------------------------
EXTENDS EmailDelivery

===========================================================================
