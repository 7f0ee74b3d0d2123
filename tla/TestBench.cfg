SPECIFICATION Spec
CONSTANTS
    TxHead = 8
    LoopLag = 1
    RxStart = 2
    RxLag = 4
    BusCycles = 4
    Suite = {
        "reset_state_test", "reg_mac_addr_test", "reg_intr_mask_test", "reg_intr_test_test",
        "reg_ctrl_test", "loopback_basic_test", "loopback_b2b_transmissions",
        "mac_non_match_test", "mac_non_match_then_match", "mac_match_test",
        "mac_promiscuous_test", "mac_broadcast_test", "mac_multicast_test", "packet_queue_test",
        "packet_pop_test", "packet_peek_test", "back_to_back_tx_buffer_test",
        "back_to_back_rx_buffer_test", "back_to_back_metadata_test", "back_to_back_csr_test",
        "back_to_back_mixed_test", "table_full_test", "buffer_full_test",
        "buffer_full_edge_test", "buffer_almost_full_edge_test", "buffer_full_packet_lost_test",
        "table_full_packet_lost_test", "packet_lost_non_match_test",
        "packet_lost_recovery_test", "crc_error_test", "health_test_test",
        "change_mac_during_rx_match_to_non_match", "change_loopback_during_loopback",
        "change_promiscuous_during_loopback", "pop_during_loopback",
        "tx_write_during_tx_recovery", "short_packet_padding_test", "rgmii_rx_test",
        "rgmii_min_rx_test", "rgmii_max_rx_test", "rgmii_tx_test", "rgmii_min_tx_test",
        "rgmii_max_tx_test", "rgmii_pop_during_rx", "rgmii_pop_during_rx_table_full",
        "rgmii_b2b_rx", "rgmii_simultaneous_tx_rx", "rgmii_simultaneous_tx_rx_loopback",
        "long_random_test", "long_random_simultaneous_rx_tx_test", "err_write_rx_buffer",
        "err_write_rx_metadata", "err_read_tx_buffer", "err_read_invalid_rx_metadata",
        "err_read_invalid_address", "err_write_invalid_address", "err_write_status_reg",
        "intr_packet_pending_test", "intr_table_almost_full_test", "intr_table_full_test",
        "intr_buffer_almost_full_test", "intr_packet_lost_test", "intr_tx_done",
        "mdio_write_test"}
INVARIANTS
    TypeOK
    MirrorInSync
    TestsPass
    ReinitIsReset
PROPERTY
    TestsFinish
