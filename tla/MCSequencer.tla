---------------------------- MODULE MCSequencer ----------------------------
EXTENDS SequencerProperties

MCPrograms ==
    {<<"homing", "syringe", "spin">>, <<"homing_index", "stamp">>, <<"syringe">>,
     <<"spin", "cure_index">>, <<"stamp", "cure">>, <<"cure_in_argon">>, <<"homing_Z", "short_purge">>}
MCDispense == {<<"homing">>, <<"syringe">>}
=============================================================================
