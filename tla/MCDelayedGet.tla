------------------------------ MODULE MCDelayedGet ------------------------------
EXTENDS DelayedGet

NoneWithin == {}
OneWithin == {<<"t", "u">>}

=================================================================================
