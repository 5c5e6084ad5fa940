----------------------------- MODULE MCMqttClient -----------------------------
(* Small instances of MqttClient.                                            *)
EXTENDS MqttClient

MCQoS == {1, 2}
MCNoLimit == -1
=============================================================================
