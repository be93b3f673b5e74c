--------------------------- MODULE MCHubModemCtrl ---------------------------
(* Writes of 0 and 99 to fota_gpio_ctrl (99 resets the modem), 0 and 1 to  *)
(* the line controls and cp_ril_init, and 0 and 99 to ril_fail.            *)
EXTENDS HubModemCtrl

MCFotaValues == {0, 99}
MCLineValues == {0, 1}
MCRilFailValues == {0, 99}
MCRilInitValues == {0, 1}

=============================================================================
