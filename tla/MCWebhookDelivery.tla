-------------------------- MODULE MCWebhookDelivery --------------------------
(* Settings with both channels on; with Discord's URL alone, switched off, so *)
(* that nothing is on; and with no URL at all, which leaves the mock.          *)
EXTENDS WebhookDelivery

Setting(slack, discord, on) ==
    [slackUrl |-> slack, slackOn |-> on, discordUrl |-> discord, discordOn |-> on,
     mockUrl |-> FALSE]
OneTwoOrMock ==
    {Setting(TRUE, TRUE, TRUE), Setting(FALSE, TRUE, FALSE), Setting(FALSE, FALSE, TRUE)}
==============================================================================
